---- MODULE Spec2Model ----
(***************************************************************************)
(* Model of the MCBO agent: the tool executor (mcbo/agent/tools.py), the   *)
(* provider adapters and the orchestration loop of                         *)
(* AgentOrchestrator.answer_question (mcbo/agent/orchestrator.py).         *)
(*                                                                         *)
(* Python values are represented as follows.  A dict is a record; a        *)
(* missing key is a field that is not in the record's DOMAIN.  A str is a  *)
(* TLA+ string and + on str is \o.  A DataFrame is a record                *)
(* [columns, rows]; every cell is a string, because _tool_execute_sparql   *)
(* stores str(val), and the missing cell None is the marker NoneCell.      *)
(* A tool body yields [raised, value, df, de]: whether it raised, the      *)
(* returned payload (or the exception's str()), and the executor's two     *)
(* fields as the body left them.                                           *)
(***************************************************************************)
EXTENDS Integers, Sequences, FiniteSets, TLC

(***************************************************************************)
(* Bounds of the model.                                                    *)
(***************************************************************************)
MaxIter == 2        \* max_iterations ranges over 1..MaxIter
MaxCalls == 2       \* tool calls requested by one response
MaxQueue == 2       \* responses configured in a MockProvider
MaxExec == 3        \* direct ToolExecutor.execute calls in SpecExec
MaxText == 4        \* pieces of a text the Ollama backend returns

(***************************************************************************)
(* Python None for current_df / de_results, and for a DataFrame cell.      *)
(***************************************************************************)
NoneDf == [is_none |-> TRUE]
NoneCell == "None"

\* None in a payload field that otherwise holds a (symbolic) number
NoneVal == << >>

Get(args, key, default) == IF key \in DOMAIN args THEN args[key] ELSE default

HasKey(d, key) == key \in DOMAIN d

\* DataFrame.empty: no rows
IsEmptyDf(df) == Len(df.rows) = 0

Min(a, b) == IF a < b THEN a ELSE b

\* DataFrame.head(n)
Head_n(rows, n) == SubSeq(rows, 1, Min(n, Len(rows)))

(***************************************************************************)
(* TOOL_DEFINITIONS: the names of the catalog, in the order of the list.   *)
(***************************************************************************)
TOOL_DEFINITIONS ==
    << "execute_sparql", "compute_correlation", "compute_fold_change",
       "find_peak_conditions", "filter_by_threshold", "differential_expression",
       "get_pathway_enrichment", "summarize_by_group", "get_significant_genes" >>

RegistryNames == { TOOL_DEFINITIONS[i] : i \in 1..Len(TOOL_DEFINITIONS) }

(***************************************************************************)
(* The knowledge graph.  It is fixed at construction, so a query's result  *)
(* is a function of the query text.  Two templates of SPARQL_TEMPLATES     *)
(* are given rows; "cell_lines_overexpression" matches nothing in this     *)
(* graph.  A filter fragment narrows the productivity rows to those of     *)
(* 37 degrees.                                                             *)
(***************************************************************************)
SPARQL_TEMPLATES ==
    { "culture_conditions_productivity", "gene_expression_by_process_type",
      "cell_lines_overexpression" }

ProductivityColumns == << "temperature", "productivityValue" >>

ProductivityRows ==
    << [temperature |-> "37", productivityValue |-> "5"],
       [temperature |-> "30", productivityValue |-> "2"],
       [temperature |-> "37", productivityValue |-> NoneCell] >>

ExpressionColumns == << "gene", "processType", "expressionValue", "cellLineLabel" >>

ExpressionRows ==
    << [gene |-> "G1", processType |-> "FedBatch", expressionValue |-> "8",
        cellLineLabel |-> "HEK293"],
       [gene |-> "G1", processType |-> "Perfusion", expressionValue |-> "1",
        cellLineLabel |-> "HEK293"] >>

\* Graph.query on a formatted template
GraphQueryTemplate(template_name, filter_clause) ==
    IF template_name = "culture_conditions_productivity"
    THEN [columns |-> ProductivityColumns,
          rows |-> IF filter_clause = ""
                   THEN ProductivityRows
                   ELSE SelectSeq(ProductivityRows, LAMBDA r : r.temperature = "37")]
    ELSE IF template_name = "gene_expression_by_process_type"
    THEN [columns |-> ExpressionColumns, rows |-> ExpressionRows]
    ELSE [columns |-> << "cellLine", "gene" >>, rows |-> << >>]

\* Raw query texts the model distinguishes: one that parses, one that does not.
RawQueryOk == "SELECT ?temperature ?productivityValue WHERE { ... }"
RawQueryBad == "SELEKT"

\* Graph.query on a raw query: rdflib raises on text that does not parse.
GraphQueryRaw(raw_query) ==
    IF raw_query = RawQueryBad
    THEN [raised |-> TRUE, value |-> "Expected {SelectQuery | ConstructQuery | DescribeQuery | AskQuery}"]
    ELSE [raised |-> FALSE,
          value |-> [columns |-> ProductivityColumns, rows |-> ProductivityRows]]

(***************************************************************************)
(* Outcome of a tool body.                                                 *)
(***************************************************************************)
Raise(msg, df, de) == [raised |-> TRUE, value |-> msg, df |-> df, de |-> de]

Ret(payload, df, de) == [raised |-> FALSE, value |-> payload, df |-> df, de |-> de]

\* str(KeyError(key)) is the repr of the key
KeyErrorStr(key) == "'" \o key \o "'"

NoDataLoaded == [error |-> "No data loaded. Run execute_sparql first."]

\* the guard `self.current_df is None or self.current_df.empty`
NoData(df) == df = NoneDf \/ IsEmptyDf(df)

\* first key of `keys` that `args` lacks (args[key] raises KeyError), or ""
RECURSIVE FirstMissing(_, _)
FirstMissing(args, keys) ==
    IF keys = << >> THEN ""
    ELSE IF ~HasKey(args, Head(keys)) THEN Head(keys)
    ELSE FirstMissing(args, Tail(keys))

\* first column of `cols` that the frame lacks (df[col] raises KeyError), or ""
RECURSIVE FirstAbsentColumn(_, _)
FirstAbsentColumn(df, cols) ==
    IF cols = << >> THEN ""
    ELSE IF \A i \in 1..Len(df.columns) : df.columns[i] # Head(cols) THEN Head(cols)
    ELSE FirstAbsentColumn(df, Tail(cols))

HasColumn(df, col) == \E i \in 1..Len(df.columns) : df.columns[i] = col

(***************************************************************************)
(* float(str): the numerals the graph's literals use.  NaN marks a cell    *)
(* that pd.to_numeric(errors='coerce') cannot convert.                     *)
(***************************************************************************)
NaN == -1

IsNumeric(s) == s \in {"0", "1", "2", "3", "5", "8", "30", "37"}

ToFloat(s) ==
    CASE s = "0" -> 0 [] s = "1" -> 1 [] s = "2" -> 2 [] s = "3" -> 3
      [] s = "5" -> 5 [] s = "8" -> 8 [] s = "30" -> 30 [] s = "37" -> 37 [] OTHER -> NaN

(***************************************************************************)
(* str.contains(label, case=False): the labels and cell values of the      *)
(* model, as (cell value, label) pairs for which the match succeeds.       *)
(***************************************************************************)
ContainsCI(cell, label) ==
    \/ label = ""
    \/ cell # NoneCell /\ << cell, label >> \in
          { << "FedBatch", "FedBatch" >>, << "FedBatch", "fedbatch" >>,
            << "FedBatch", "Batch" >>, << "Perfusion", "Perfusion" >>,
            << "Perfusion", "perf" >>, << "37", "37" >>, << "30", "30" >>,
            << "37", "3" >>, << "30", "3" >>, << "HEK293", "HEK293" >>,
            << "HEK293", "hek" >> }

RECURSIVE SumSeq(_)
SumSeq(s) == IF s = << >> THEN 0 ELSE Head(s) + SumSeq(Tail(s))

\* the values of column `col`, None dropped, of the rows `rows`
ColumnValues(rows, col) ==
    LET kept == SelectSeq(rows, LAMBDA r : r[col] # NoneCell)
    IN  [i \in 1..Len(kept) |-> kept[i][col]]

AllNumeric(vals) == \A i \in 1..Len(vals) : IsNumeric(vals[i])

Floats(vals) == [i \in 1..Len(vals) |-> ToFloat(vals[i])]

(***************************************************************************)
(* ToolExecutor._tool_execute_sparql                                       *)
(***************************************************************************)
\* variant: a new query discards the DE results of the previous table
tool_execute_sparql_ResetsDe(args, df, de) ==
    LET template_name == Get(args, "template_name", "")
        raw_query == Get(args, "raw_query", "")
        filter_clause == Get(args, "filter_clause", "")
        Loaded(table) ==
            Ret([row_count |-> Len(table.rows),
                 columns |-> table.columns,
                 sample_rows |-> Head_n(table.rows, 10)], table, NoneDf)
    IN  IF template_name # ""
        THEN IF template_name \notin SPARQL_TEMPLATES
             THEN Raise("\"Unknown template '" \o template_name \o "'. Available: ...\"", df, de)
             ELSE Loaded(GraphQueryTemplate(template_name, filter_clause))
        ELSE IF raw_query # ""
        THEN LET q == GraphQueryRaw(raw_query)
             IN  IF q.raised THEN Raise(q.value, df, de) ELSE Loaded(q.value)
        ELSE Ret([error |-> "Provide either template_name or raw_query"], df, de)

\* variant: a failing query leaves an empty table behind
tool_execute_sparql_Partial(args, df, de) ==
    LET template_name == Get(args, "template_name", "")
        raw_query == Get(args, "raw_query", "")
        filter_clause == Get(args, "filter_clause", "")
        Loaded(table) ==
            Ret([row_count |-> Len(table.rows),
                 columns |-> table.columns,
                 sample_rows |-> Head_n(table.rows, 10)], table, de)
        Partial == [columns |-> << >>, rows |-> << >>]
    IN  IF template_name # ""
        THEN IF template_name \notin SPARQL_TEMPLATES
             THEN Raise("\"Unknown template '" \o template_name \o "'. Available: ...\"", df, de)
             ELSE Loaded(GraphQueryTemplate(template_name, filter_clause))
        ELSE IF raw_query # ""
        THEN LET q == GraphQueryRaw(raw_query)
             IN  IF q.raised THEN Raise(q.value, Partial, de) ELSE Loaded(q.value)
        ELSE Ret([error |-> "Provide either template_name or raw_query"], df, de)

tool_execute_sparql(args, df, de) ==
    LET template_name == Get(args, "template_name", "")
        raw_query == Get(args, "raw_query", "")
        filter_clause == Get(args, "filter_clause", "")
        Loaded(table) ==
            Ret([row_count |-> Len(table.rows),
                 columns |-> table.columns,
                 sample_rows |-> Head_n(table.rows, 10)], table, de)
    IN  IF template_name # ""
        THEN IF template_name \notin SPARQL_TEMPLATES
             THEN Raise("\"Unknown template '" \o template_name \o "'. Available: ...\"", df, de)
             ELSE Loaded(GraphQueryTemplate(template_name, filter_clause))
        ELSE IF raw_query # ""
        THEN LET q == GraphQueryRaw(raw_query)
             IN  IF q.raised THEN Raise(q.value, df, de) ELSE Loaded(q.value)
        ELSE Ret([error |-> "Provide either template_name or raw_query"], df, de)

(***************************************************************************)
(* The p-value of a statistical test of scipy (pearsonr, spearmanr,        *)
(* ttest_ind) is an outcome of the environment: a fraction <<num, den>>,   *)
(* or none when the test yields NaN, raises, or scipy is not installed.    *)
(***************************************************************************)
StatOutcomes == { << 1, 100 >>, << 5, 100 >>, NoneVal }

\* p_val is not None and p_val < num/den
IsBelow(p_val, num, den) == p_val # NoneVal /\ p_val[1] * den < num * p_val[2]

(***************************************************************************)
(* stats_tools.compute_correlation.  The coefficient itself is kept        *)
(* symbolic: what is modelled is the sample count, the branch taken and    *)
(* the significance.  MinSamples is the default of min_samples.            *)
(***************************************************************************)
MinSamples == 3

\* variant: the rows are counted before those with a missing value are dropped
compute_correlation_AllRows(df, x_col, y_col, method, min_samples, p_val) ==
    LET absent == FirstAbsentColumn(df, << x_col, y_col >>)
        valid == SelectSeq(df.rows, LAMBDA r : r[x_col] # NoneCell /\ r[y_col] # NoneCell)
        n == Len(df.rows)
    IN  IF absent # "" THEN [raised |-> TRUE, value |-> KeyErrorStr(absent)]
        ELSE IF n < min_samples
        THEN [raised |-> FALSE,
              value |-> [correlation |-> NoneVal, p_value |-> NoneVal, n_samples |-> n,
                         method |-> method, significant |-> FALSE,
                         error |-> "Insufficient samples: " \o ToString(n) \o " < "
                                       \o ToString(min_samples)]]
        ELSE IF ~AllNumeric(ColumnValues(valid, x_col)) \/ ~AllNumeric(ColumnValues(valid, y_col))
        THEN [raised |-> TRUE, value |-> "could not convert string to float"]
        ELSE [raised |-> FALSE,
              value |-> [correlation |-> << method, Floats(ColumnValues(valid, x_col)),
                                            Floats(ColumnValues(valid, y_col)) >>,
                         p_value |-> p_val, n_samples |-> n, method |-> method,
                         significant |-> IsBelow(p_val, 5, 100)]]

compute_correlation(df, x_col, y_col, method, min_samples, p_val) ==
    LET absent == FirstAbsentColumn(df, << x_col, y_col >>)
        valid == SelectSeq(df.rows, LAMBDA r : r[x_col] # NoneCell /\ r[y_col] # NoneCell)
        n == Len(valid)
    IN  IF absent # "" THEN [raised |-> TRUE, value |-> KeyErrorStr(absent)]
        ELSE IF n < min_samples
        THEN [raised |-> FALSE,
              value |-> [correlation |-> NoneVal, p_value |-> NoneVal, n_samples |-> n,
                         method |-> method, significant |-> FALSE,
                         error |-> "Insufficient samples: " \o ToString(n) \o " < "
                                       \o ToString(min_samples)]]
        ELSE IF ~AllNumeric(ColumnValues(valid, x_col)) \/ ~AllNumeric(ColumnValues(valid, y_col))
        THEN [raised |-> TRUE, value |-> "could not convert string to float"]
        ELSE [raised |-> FALSE,
              value |-> [correlation |-> << method, Floats(ColumnValues(valid, x_col)),
                                            Floats(ColumnValues(valid, y_col)) >>,
                         p_value |-> p_val, n_samples |-> n, method |-> method,
                         significant |-> IsBelow(p_val, 5, 100)]]

\* ToolExecutor._tool_compute_correlation
tool_compute_correlation(args, df, de, p_val) ==
    IF NoData(df) THEN Ret(NoDataLoaded, df, de)
    ELSE LET missing == FirstMissing(args, << "x_col", "y_col" >>)
         IN  IF missing # "" THEN Raise(KeyErrorStr(missing), df, de)
             ELSE LET r == compute_correlation(df, args.x_col, args.y_col,
                                               Get(args, "method", "pearson"), MinSamples, p_val)
                  IN  IF r.raised THEN Raise(r.value, df, de) ELSE Ret(r.value, df, de)

(***************************************************************************)
(* stats_tools.compute_fold_change in log2 mode with pseudocount 1.  A     *)
(* mean is the pair <<sum, count>>; the log2 fold change                   *)
(* log2((mean1 + 1) / (mean2 + 1)) is the pair <<num, den>> of the         *)
(* fraction under the logarithm, (sum1 + n1) * n2 over (sum2 + n2) * n1.   *)
(* The t-test runs only when both groups have two samples or more; p_val   *)
(* is the p-value it yields.                                               *)
(***************************************************************************)
\* variant: the pseudocount is added to the first mean only
compute_fold_change_OneSided(rows, columns, group_col, value_col, group1, group2, p_val) ==
    LET frame == [columns |-> columns, rows |-> rows]
        absent == FirstAbsentColumn(frame, << group_col, value_col >>)
        g1_vals == ColumnValues(SelectSeq(rows, LAMBDA r : ContainsCI(r[group_col], group1)), value_col)
        g2_vals == ColumnValues(SelectSeq(rows, LAMBDA r : ContainsCI(r[group_col], group2)), value_col)
        n1 == Len(g1_vals)
        n2 == Len(g2_vals)
        s1 == SumSeq(Floats(g1_vals))
        s2 == SumSeq(Floats(g2_vals))
    IN  IF absent # "" THEN [raised |-> TRUE, value |-> KeyErrorStr(absent)]
        ELSE IF ~AllNumeric(g1_vals) \/ ~AllNumeric(g2_vals)
        THEN [raised |-> TRUE, value |-> "could not convert string to float"]
        ELSE IF n1 = 0 \/ n2 = 0
        THEN [raised |-> FALSE,
              value |-> [fold_change |-> NoneVal,
                         mean_group1 |-> IF n1 > 0 THEN << s1, n1 >> ELSE NoneVal,
                         mean_group2 |-> IF n2 > 0 THEN << s2, n2 >> ELSE NoneVal,
                         n_group1 |-> n1, n_group2 |-> n2,
                         p_value |-> NoneVal, significant |-> FALSE,
                         error |-> "Empty group(s)"]]
        ELSE [raised |-> FALSE,
              value |-> [fold_change |-> << (s1 + n1) * n2, s2 * n1 >>,
                         log2 |-> TRUE,
                         mean_group1 |-> << s1, n1 >>, mean_group2 |-> << s2, n2 >>,
                         n_group1 |-> n1, n_group2 |-> n2,
                         p_value |-> IF n1 >= 2 /\ n2 >= 2 THEN p_val ELSE NoneVal,
                         significant |-> n1 >= 2 /\ n2 >= 2 /\ IsBelow(p_val, 5, 100)]]

\* variant: a row matched to group 1 is not counted in group 2
compute_fold_change_Exclusive(rows, columns, group_col, value_col, group1, group2, p_val) ==
    LET frame == [columns |-> columns, rows |-> rows]
        absent == FirstAbsentColumn(frame, << group_col, value_col >>)
        g1_vals == ColumnValues(SelectSeq(rows, LAMBDA r : ContainsCI(r[group_col], group1)), value_col)
        g2_vals == ColumnValues(SelectSeq(rows, LAMBDA r : ContainsCI(r[group_col], group2) /\ ~ContainsCI(r[group_col], group1)), value_col)
        n1 == Len(g1_vals)
        n2 == Len(g2_vals)
        s1 == SumSeq(Floats(g1_vals))
        s2 == SumSeq(Floats(g2_vals))
    IN  IF absent # "" THEN [raised |-> TRUE, value |-> KeyErrorStr(absent)]
        ELSE IF ~AllNumeric(g1_vals) \/ ~AllNumeric(g2_vals)
        THEN [raised |-> TRUE, value |-> "could not convert string to float"]
        ELSE IF n1 = 0 \/ n2 = 0
        THEN [raised |-> FALSE,
              value |-> [fold_change |-> NoneVal,
                         mean_group1 |-> IF n1 > 0 THEN << s1, n1 >> ELSE NoneVal,
                         mean_group2 |-> IF n2 > 0 THEN << s2, n2 >> ELSE NoneVal,
                         n_group1 |-> n1, n_group2 |-> n2,
                         p_value |-> NoneVal, significant |-> FALSE,
                         error |-> "Empty group(s)"]]
        ELSE [raised |-> FALSE,
              value |-> [fold_change |-> << (s1 + n1) * n2, (s2 + n2) * n1 >>,
                         log2 |-> TRUE,
                         mean_group1 |-> << s1, n1 >>, mean_group2 |-> << s2, n2 >>,
                         n_group1 |-> n1, n_group2 |-> n2,
                         p_value |-> IF n1 >= 2 /\ n2 >= 2 THEN p_val ELSE NoneVal,
                         significant |-> n1 >= 2 /\ n2 >= 2 /\ IsBelow(p_val, 5, 100)]]

compute_fold_change(rows, columns, group_col, value_col, group1, group2, p_val) ==
    LET frame == [columns |-> columns, rows |-> rows]
        absent == FirstAbsentColumn(frame, << group_col, value_col >>)
        g1_vals == ColumnValues(SelectSeq(rows, LAMBDA r : ContainsCI(r[group_col], group1)), value_col)
        g2_vals == ColumnValues(SelectSeq(rows, LAMBDA r : ContainsCI(r[group_col], group2)), value_col)
        n1 == Len(g1_vals)
        n2 == Len(g2_vals)
        s1 == SumSeq(Floats(g1_vals))
        s2 == SumSeq(Floats(g2_vals))
    IN  IF absent # "" THEN [raised |-> TRUE, value |-> KeyErrorStr(absent)]
        ELSE IF ~AllNumeric(g1_vals) \/ ~AllNumeric(g2_vals)
        THEN [raised |-> TRUE, value |-> "could not convert string to float"]
        ELSE IF n1 = 0 \/ n2 = 0
        THEN [raised |-> FALSE,
              value |-> [fold_change |-> NoneVal,
                         mean_group1 |-> IF n1 > 0 THEN << s1, n1 >> ELSE NoneVal,
                         mean_group2 |-> IF n2 > 0 THEN << s2, n2 >> ELSE NoneVal,
                         n_group1 |-> n1, n_group2 |-> n2,
                         p_value |-> NoneVal, significant |-> FALSE,
                         error |-> "Empty group(s)"]]
        ELSE [raised |-> FALSE,
              value |-> [fold_change |-> << (s1 + n1) * n2, (s2 + n2) * n1 >>,
                         log2 |-> TRUE,
                         mean_group1 |-> << s1, n1 >>, mean_group2 |-> << s2, n2 >>,
                         n_group1 |-> n1, n_group2 |-> n2,
                         p_value |-> IF n1 >= 2 /\ n2 >= 2 THEN p_val ELSE NoneVal,
                         significant |-> n1 >= 2 /\ n2 >= 2 /\ IsBelow(p_val, 5, 100)]]

\* ToolExecutor._tool_compute_fold_change
tool_compute_fold_change(args, df, de, p_val) ==
    IF NoData(df) THEN Ret(NoDataLoaded, df, de)
    ELSE LET missing == FirstMissing(args, << "group_col", "value_col", "group1", "group2" >>)
         IN  IF missing # "" THEN Raise(KeyErrorStr(missing), df, de)
             ELSE LET r == compute_fold_change(df.rows, df.columns, args.group_col,
                                               args.value_col, args.group1, args.group2, p_val)
                  IN  IF r.raised THEN Raise(r.value, df, de) ELSE Ret(r.value, df, de)

(***************************************************************************)
(* stats_tools.find_peak_conditions: the rows with a metric are grouped by *)
(* the condition columns that have data, each group is aggregated, the     *)
(* groups are sorted by the aggregate and the first top_n are returned.    *)
(* Aggregates and means are fractions <<num, den>>.                        *)
(***************************************************************************)
\* the order of groupby's sorted keys: strings ascending, a missing value last
CellRank(cell) ==
    CASE cell = "30" -> 1 [] cell = "37" -> 2
      [] cell = "FedBatch" -> 1 [] cell = "Perfusion" -> 2
      [] cell = "G1" -> 1
      [] OTHER -> 9

RECURSIVE KeyLess(_, _)
KeyLess(a, b) ==
    IF a = << >> \/ b = << >> THEN FALSE
    ELSE IF CellRank(Head(a)) # CellRank(Head(b)) THEN CellRank(Head(a)) < CellRank(Head(b))
    ELSE KeyLess(Tail(a), Tail(b))

\* the group key of a row: its cells in the grouping columns
KeyOf(row, cols) == [j \in 1..Len(cols) |-> row[cols[j]]]

RECURSIVE SortedKeys(_)
SortedKeys(keys) ==
    IF keys = {} THEN << >>
    ELSE LET first == CHOOSE k \in keys : \A o \in keys \ {k} : KeyLess(k, o)
         IN  << first >> \o SortedKeys(keys \ {first})

RECURSIVE InsertNum(_, _)
InsertNum(x, sorted) ==
    IF sorted = << >> THEN << x >>
    ELSE IF x <= Head(sorted) THEN << x >> \o sorted
    ELSE << Head(sorted) >> \o InsertNum(x, Tail(sorted))

RECURSIVE SortNums(_)
SortNums(vals) == IF vals = << >> THEN << >> ELSE InsertNum(Head(vals), SortNums(Tail(vals)))

MaxOf(vals) == SortNums(vals)[Len(vals)]

MinOf(vals) == SortNums(vals)[1]

\* Series.median as a fraction <<num, den>>
MedianOf(vals) ==
    IF Len(vals) % 2 = 1
    THEN << SortNums(vals)[(Len(vals) + 1) \div 2], 1 >>
    ELSE << SortNums(vals)[Len(vals) \div 2] + SortNums(vals)[Len(vals) \div 2 + 1], 2 >>

\* .agg(agg_func) of one group, as a fraction <<num, den>>
Aggregate(vals, method) ==
    CASE method = "mean" -> << SumSeq(vals), Len(vals) >>
      [] method = "max" -> << MaxOf(vals), 1 >>
      [] method = "median" -> MedianOf(vals)

FracGreater(a, b) == a[1] * b[2] > b[1] * a[2]

\* one row of `grouped`: the key, the aggregate and the count of a group
GroupRow(valid, cols, key, metric_col, method) ==
    [key |-> key,
     agg |-> Aggregate(Floats(ColumnValues(SelectSeq(valid, LAMBDA r : KeyOf(r, cols) = key),
                                           metric_col)), method),
     count |-> Len(SelectSeq(valid, LAMBDA r : KeyOf(r, cols) = key))]

\* sort_values(agg_func, ascending=False): on the few rows of a model table
\* the sort keeps the groupby order among equal aggregates
RECURSIVE InsertGroup(_, _)
InsertGroup(g, sorted) ==
    IF sorted = << >> THEN << g >>
    ELSE IF FracGreater(g.agg, Head(sorted).agg) THEN << g >> \o sorted
    ELSE << Head(sorted) >> \o InsertGroup(g, Tail(sorted))

RECURSIVE SortGroupsDesc(_, _)
SortGroupsDesc(groups, acc) ==
    IF groups = << >> THEN acc
    ELSE SortGroupsDesc(Tail(groups), InsertGroup(Head(groups), acc))

Grouped_Unsorted(valid, cols, metric_col, method) ==
    LET keys == SortedKeys({ KeyOf(valid[i], cols) : i \in 1..Len(valid) })
    IN  [k \in 1..Len(keys) |-> GroupRow(valid, cols, keys[k], metric_col, method)]

\* grouped: one row per key, sorted by the aggregate, greatest first
Grouped(valid, cols, metric_col, method) ==
    LET keys == SortedKeys({ KeyOf(valid[i], cols) : i \in 1..Len(valid) })
    IN  SortGroupsDesc([k \in 1..Len(keys) |-> GroupRow(valid, cols, keys[k], metric_col, method)],
                       << >>)

\* one entry of top_conditions: {col: value, ..., "<metric>_<method>": agg, "sample_count": n}
ConditionDict(g, cols, metric_col, method) ==
    [k \in { cols[j] : j \in 1..Len(cols) } \cup { metric_col \o "_" \o method, "sample_count" } |->
        IF k = "sample_count" THEN g.count
        ELSE IF k = metric_col \o "_" \o method THEN g.agg
        ELSE g.key[CHOOSE j \in 1..Len(cols) : cols[j] = k]]

TopConditions(grouped, cols, metric_col, method, top_n) ==
    [k \in 1..Min(top_n, Len(grouped)) |-> ConditionDict(grouped[k], cols, metric_col, method)]

\* metric_stats over all valid rows; the standard deviation of two or more
\* values is kept symbolic, that of one value is NaN unless the branch guards it
MetricStats(vals, guarded) ==
    [mean |-> << SumSeq(vals), Len(vals) >>, max |-> MaxOf(vals), min |-> MinOf(vals),
     std |-> IF Len(vals) > 1 THEN << "std", vals >> ELSE IF guarded THEN 0 ELSE NaN,
     count |-> Len(vals)]

\* the rows with a metric value
ValidRows(df, metric_col) == SelectSeq(df.rows, LAMBDA r : r[metric_col] # NoneCell)

\* the condition columns of the frame that have a value in some valid row
ValidConditionCols(df, valid, condition_cols) ==
    SelectSeq(condition_cols,
              LAMBDA c : HasColumn(df, c) /\ \E i \in 1..Len(valid) : valid[i][c] # NoneCell)

PeakPayload(top_conditions, stats, method, cols) ==
    [top_conditions |-> top_conditions,
     overall_best |-> IF top_conditions # << >> THEN top_conditions[1] ELSE NoneCell,
     metric_stats |-> stats,
     method |-> method,
     condition_columns |-> cols]

PeakGrouped(df, valid, cols, metric_col, method, top_n) ==
    IF cols = << >>
    THEN [raised |-> FALSE,
          value |-> [top_conditions |-> << >>, overall_best |-> NoneCell,
                     metric_stats |-> MetricStats(Floats(ColumnValues(valid, metric_col)), FALSE),
                     note |-> "No condition columns with data"]]
    ELSE IF method \notin {"mean", "max", "median"}
    THEN [raised |-> TRUE, value |-> KeyErrorStr(method)]
    ELSE [raised |-> FALSE,
          value |-> PeakPayload(TopConditions(Grouped(valid, cols, metric_col, method),
                                              cols, metric_col, method, top_n),
                                MetricStats(Floats(ColumnValues(valid, metric_col)), TRUE),
                                method, cols)]

find_peak_conditions(df, condition_cols, metric_col, method, top_n) ==
    IF ~HasColumn(df, metric_col)
    THEN [raised |-> TRUE, value |-> KeyErrorStr(metric_col)]
    ELSE IF ~AllNumeric(ColumnValues(ValidRows(df, metric_col), metric_col))
    THEN [raised |-> TRUE, value |-> "could not convert string to float"]
    ELSE IF Len(ValidRows(df, metric_col)) = 0
    THEN [raised |-> FALSE,
          value |-> [top_conditions |-> << >>, overall_best |-> NoneCell,
                     metric_stats |-> NoneCell, error |-> "No valid data"]]
    ELSE PeakGrouped(df, ValidRows(df, metric_col),
                     ValidConditionCols(df, ValidRows(df, metric_col), condition_cols),
                     metric_col, method, top_n)

\* ToolExecutor._tool_find_peak_conditions
tool_find_peak_conditions(args, df, de) ==
    IF NoData(df) THEN Ret(NoDataLoaded, df, de)
    ELSE LET missing == FirstMissing(args, << "condition_cols", "metric_col" >>)
         IN  IF missing # "" THEN Raise(KeyErrorStr(missing), df, de)
             ELSE LET r == find_peak_conditions(df, args.condition_cols, args.metric_col,
                                                Get(args, "method", "mean"),
                                                Get(args, "top_n", 5))
                  IN  IF r.raised THEN Raise(r.value, df, de) ELSE Ret(r.value, df, de)

(***************************************************************************)
(* stats_tools.filter_by_threshold: the column is coerced to numbers       *)
(* (a cell that is no number becomes NaN, which fails every comparison     *)
(* but !=) and the rows satisfying the comparison are kept, in order.      *)
(***************************************************************************)
Compare(x, op, value) ==
    IF x = NaN THEN op = "!="
    ELSE CASE op = ">" -> x > value
           [] op = ">=" -> x >= value
           [] op = "<" -> x < value
           [] op = "<=" -> x <= value
           [] op = "==" -> x = value
           [] op = "!=" -> x # value
           [] OTHER -> FALSE

filter_by_threshold(df, col, op, value) ==
    IF ~HasColumn(df, col)
    THEN [raised |-> TRUE, value |-> "Column '" \o col \o "' not found in DataFrame"]
    ELSE IF op \notin {">", ">=", "<", "<=", "==", "!="}
    THEN [raised |-> TRUE, value |-> "Unknown operator: " \o op]
    ELSE [raised |-> FALSE,
          value |-> [columns |-> df.columns,
                     rows |-> SelectSeq(df.rows,
                                        LAMBDA r : Compare(ToFloat(r[col]), op, value))]]

\* variant: the arguments are read before the table is looked at
tool_filter_by_threshold_ArgsFirst(args, df, de) ==
    LET missing == FirstMissing(args, << "col", "op", "value" >>)
    IN  IF missing # "" THEN Raise(KeyErrorStr(missing), df, de)
        ELSE IF NoData(df) THEN Ret(NoDataLoaded, df, de)
        ELSE LET r == filter_by_threshold(df, args.col, args.op, args.value)
             IN  IF r.raised THEN Raise(r.value, df, de)
                 ELSE Ret([remaining_rows |-> Len(r.value.rows),
                           sample_rows |-> Head_n(r.value.rows, 5)], r.value, de)

\* ToolExecutor._tool_filter_by_threshold
tool_filter_by_threshold(args, df, de) ==
    IF NoData(df) THEN Ret(NoDataLoaded, df, de)
    ELSE LET missing == FirstMissing(args, << "col", "op", "value" >>)
         IN  IF missing # "" THEN Raise(KeyErrorStr(missing), df, de)
             ELSE LET r == filter_by_threshold(df, args.col, args.op, args.value)
                  IN  IF r.raised THEN Raise(r.value, df, de)
                      ELSE Ret([remaining_rows |-> Len(r.value.rows),
                                sample_rows |-> Head_n(r.value.rows, 5)], r.value, de)

(***************************************************************************)
(* stats_tools.differential_expression.  log2fc_threshold is a natural     *)
(* number t, so |log2(num / den)| >= t is num >= 2^t * den or              *)
(* den >= 2^t * num.  A gene whose groups are too small for the t-test     *)
(* has no p-value.  pvalue_threshold is a number of hundredths (default 5  *)
(* for 0.05).  p_val is the p-value the t-test yields for the gene it runs *)
(* on: a table of the model holds the four samples the test needs for one  *)
(* gene at most.                                                           *)
(***************************************************************************)
RECURSIVE Pow2(_)
Pow2(t) == IF t = 0 THEN 1 ELSE 2 * Pow2(t - 1)

PassesFc(fc, t) ==
    fc # NoneVal /\ (fc[1] >= Pow2(t) * fc[2] \/ fc[2] >= Pow2(t) * fc[1])

PValueBelow(p_value, pvalue_threshold) == IsBelow(p_value, pvalue_threshold, 100)

\* values of a column in order of first appearance, None dropped: dropna().unique()
RECURSIVE Unique(_, _)
Unique(vals, seen) ==
    IF vals = << >> THEN << >>
    ELSE IF Head(vals) \in seen THEN Unique(Tail(vals), seen)
    ELSE << Head(vals) >> \o Unique(Tail(vals), seen \cup {Head(vals)})

\* |log2(a)| > |log2(b)| for the fractions a and b; None counts as 0
AbsFcGreater(a, b) ==
    LET hi(f) == IF f[1] >= f[2] THEN f[1] ELSE f[2]
        lo(f) == IF f[1] >= f[2] THEN f[2] ELSE f[1]
    IN  IF a = NoneVal THEN FALSE
        ELSE IF b = NoneVal THEN hi(a) > lo(a)
        ELSE hi(a) * lo(b) > hi(b) * lo(a)

\* row a sorts strictly before row b: significant descending, then |log2FC| descending
DeBefore(a, b) ==
    \/ a.significant /\ ~b.significant
    \/ a.significant = b.significant /\ AbsFcGreater(a.log2FoldChange, b.log2FoldChange)

\* stable insertion of `row` into the sorted sequence `sorted`
RECURSIVE InsertSorted(_, _)
InsertSorted(row, sorted) ==
    IF sorted = << >> THEN << row >>
    ELSE IF DeBefore(row, Head(sorted)) THEN << row >> \o sorted
    ELSE << Head(sorted) >> \o InsertSorted(row, Tail(sorted))

RECURSIVE SortDe(_)
SortDe(rows) ==
    IF rows = << >> THEN << >>
    ELSE InsertSorted(rows[Len(rows)], SortDe(SubSeq(rows, 1, Len(rows) - 1)))

\* one row of the result frame, from a gene's fold-change dict `r`
DeRow(gene, r, log2fc_threshold, pvalue_threshold) ==
    [gene |-> gene, log2FoldChange |-> r.fold_change,
     n_group1 |-> r.n_group1, n_group2 |-> r.n_group2,
     pvalue |-> r.p_value,
     significant |-> /\ PassesFc(r.fold_change, log2fc_threshold)
                     /\ (r.p_value = NoneVal \/ PValueBelow(r.p_value, pvalue_threshold)),
     direction |-> IF PassesFc(r.fold_change, log2fc_threshold)
                   THEN (IF r.fold_change[1] > r.fold_change[2] THEN "up" ELSE "down")
                   ELSE NoneCell]

\* the result of the loop over the genes: the first exception, or the sorted frame
DeCollect(genes, fcs, log2fc_threshold, pvalue_threshold) ==
    IF \E i \in 1..Len(fcs) : fcs[i].raised
    THEN [raised |-> TRUE,
          value |-> fcs[CHOOSE i \in 1..Len(fcs) :
                          fcs[i].raised /\ \A j \in 1..(i - 1) : ~fcs[j].raised].value]
    ELSE [raised |-> FALSE,
          value |-> [columns |-> << "gene", "log2FoldChange", "pvalue", "significant", "direction" >>,
                     rows |-> SortDe([i \in 1..Len(genes) |->
                                 DeRow(genes[i], fcs[i].value, log2fc_threshold, pvalue_threshold)])]]

\* the rows left by the optional cell-line filter
CellLineRows(df, cell_line) ==
    IF cell_line # "" /\ HasColumn(df, "cellLineLabel")
    THEN SelectSeq(df.rows, LAMBDA r : ContainsCI(r.cellLineLabel, cell_line))
    ELSE df.rows

GenesOf(rows, gene_col) == Unique(ColumnValues(rows, gene_col), {})

FoldChanges(rows, columns, genes, gene_col, group_col, value_col, group1, group2, p_val) ==
    [i \in 1..Len(genes) |->
        compute_fold_change(SelectSeq(rows, LAMBDA r : r[gene_col] = genes[i]),
                            columns, group_col, value_col, group1, group2, p_val)]

differential_expression(df, group_col, group1, group2, gene_col, value_col, log2fc_threshold, pvalue_threshold, cell_line, p_val) ==
    IF ~HasColumn(df, gene_col) THEN [raised |-> TRUE, value |-> KeyErrorStr(gene_col)]
    ELSE DeCollect(GenesOf(CellLineRows(df, cell_line), gene_col),
                   FoldChanges(CellLineRows(df, cell_line), df.columns,
                               GenesOf(CellLineRows(df, cell_line), gene_col),
                               gene_col, group_col, value_col, group1, group2, p_val),
                   log2fc_threshold, pvalue_threshold)

\* the summary dict _tool_differential_expression returns
DeSummary(rows, sig) ==
    [total_genes |-> Len(rows),
     significant_genes |-> Len(sig),
     upregulated |-> Len(SelectSeq(sig, LAMBDA g : g.direction = "up")),
     downregulated |-> Len(SelectSeq(sig, LAMBDA g : g.direction = "down")),
     top_genes |-> Head_n(rows, 10)]

\* the part of _tool_differential_expression after the call of differential_expression
DeStore(r, df, de) ==
    IF r.raised THEN Raise(r.value, df, de)
    ELSE IF r.value.rows = << >>
    THEN Raise(KeyErrorStr("significant"), df, [columns |-> << >>, rows |-> << >>])
    ELSE Ret(DeSummary(r.value.rows, SelectSeq(r.value.rows, LAMBDA g : g.significant)),
             df, r.value)

(***************************************************************************)
(* ToolExecutor._tool_differential_expression.  self.de_results is         *)
(* assigned before the summary is built; with no gene the result frame has *)
(* no column and de_results["significant"] raises KeyError.                *)
(***************************************************************************)
tool_differential_expression(args, df, de, p_val) ==
    IF NoData(df) THEN Ret(NoDataLoaded, df, de)
    ELSE IF FirstMissing(args, << "group_col", "group1", "group2" >>) # ""
    THEN Raise(KeyErrorStr(FirstMissing(args, << "group_col", "group1", "group2" >>)), df, de)
    ELSE DeStore(differential_expression(df, args.group_col, args.group1, args.group2,
                                         Get(args, "gene_col", "gene"),
                                         Get(args, "value_col", "expressionValue"),
                                         Get(args, "log2fc_threshold", 1),
                                         Get(args, "pvalue_threshold", 5),
                                         Get(args, "cell_line", ""), p_val),
                 df, de)

(***************************************************************************)
(* ToolExecutor._tool_get_pathway_enrichment.  The pathway database is a   *)
(* live service: `net` is whether it answers.  get_kegg_pathways and       *)
(* get_reactome_pathways catch every failure and return an error payload.  *)
(***************************************************************************)
tool_get_pathway_enrichment(args, df, de, net) ==
    IF ~HasKey(args, "gene_list") THEN Raise(KeyErrorStr("gene_list"), df, de)
    ELSE IF Get(args, "database", "kegg") \notin {"kegg", "reactome"}
    THEN Ret([enriched_pathways |-> << >>, error |-> "Unknown database"], df, de)
    ELSE IF net = "down"
    THEN Ret([enriched_pathways |-> << >>, input_genes |-> Len(args.gene_list),
              error |-> "Connection failed"], df, de)
    ELSE Ret([enriched_pathways |-> << >>, input_genes |-> Len(args.gene_list)], df, de)

(***************************************************************************)
(* ToolExecutor._tool_summarize_by_group: one summary row per distinct     *)
(* group value among the rows with both cells present.                     *)
(***************************************************************************)
\* variant: the rows with both cells present are written back to the table
tool_summarize_by_group_InPlace(args, df, de) ==
    IF NoData(df) THEN Ret(NoDataLoaded, df, de)
    ELSE LET missing == FirstMissing(args, << "group_col", "value_col" >>)
         IN  IF missing # "" THEN Raise(KeyErrorStr(missing), df, de)
             ELSE LET absent == FirstAbsentColumn(df, << args.group_col, args.value_col >>)
                      valid == SelectSeq(df.rows, LAMBDA r : r[args.group_col] # NoneCell
                                                             /\ r[args.value_col] # NoneCell)
                      labels == { valid[i][args.group_col] : i \in 1..Len(valid) }
                  IN  IF absent # "" THEN Raise(KeyErrorStr(absent), df, de)
                      ELSE Ret([groups |-> Cardinality(labels),
                                summary |-> [g \in labels |->
                                    [count |-> Len(SelectSeq(valid,
                                        LAMBDA r : r[args.group_col] = g
                                                   /\ IsNumeric(r[args.value_col])))]]],
                               [columns |-> df.columns, rows |-> valid], de)

tool_summarize_by_group(args, df, de) ==
    IF NoData(df) THEN Ret(NoDataLoaded, df, de)
    ELSE LET missing == FirstMissing(args, << "group_col", "value_col" >>)
         IN  IF missing # "" THEN Raise(KeyErrorStr(missing), df, de)
             ELSE LET absent == FirstAbsentColumn(df, << args.group_col, args.value_col >>)
                      valid == SelectSeq(df.rows, LAMBDA r : r[args.group_col] # NoneCell
                                                             /\ r[args.value_col] # NoneCell)
                      labels == { valid[i][args.group_col] : i \in 1..Len(valid) }
                  IN  IF absent # "" THEN Raise(KeyErrorStr(absent), df, de)
                      ELSE Ret([groups |-> Cardinality(labels),
                                summary |-> [g \in labels |->
                                    [count |-> Len(SelectSeq(valid,
                                        LAMBDA r : r[args.group_col] = g
                                                   /\ IsNumeric(r[args.value_col])))]]],
                               df, de)

\* ToolExecutor._tool_get_significant_genes
tool_get_significant_genes(args, df, de) ==
    IF de = NoneDf \/ IsEmptyDf(de)
    THEN Ret([error |-> "No DE results. Run differential_expression first."], df, de)
    ELSE LET direction == Get(args, "direction", "both")
             sig == SelectSeq(de.rows, LAMBDA g : g.significant)
             kept == IF direction \in {"up", "down"}
                     THEN SelectSeq(sig, LAMBDA g : g.direction = direction)
                     ELSE sig
         IN  Ret([gene_count |-> Len(kept),
                  genes |-> [i \in 1..Len(kept) |-> kept[i].gene]], df, de)

(***************************************************************************)
(* ToolExecutor.execute: lookup of the method _tool_<name>; an exception   *)
(* of the body becomes {"error": str(e)}.  The result is                   *)
(* [value, df, de]: the payload and the executor's fields afterwards.      *)
(***************************************************************************)
\* what the environment contributes to one call: whether the pathway service
\* answers, and the p-value of the statistical test the call runs
Environments == [net : { "up", "down" }, p_val : StatOutcomes]

\* the environments a call of the tool can tell apart: only the pathway tool
\* reaches the service, only the three statistics below run a test
EnvironmentsOf(tool_name) ==
    IF tool_name = "get_pathway_enrichment"
    THEN { env \in Environments : env.p_val = NoneVal }
    ELSE IF tool_name \in { "compute_correlation", "compute_fold_change", "differential_expression" }
    THEN { env \in Environments : env.net = "up" }
    ELSE { env \in Environments : env.net = "up" /\ env.p_val = NoneVal }

ToolBody(tool_name, arguments, df, de, env) ==
    CASE tool_name = "execute_sparql" -> tool_execute_sparql(arguments, df, de)
      [] tool_name = "compute_correlation" -> tool_compute_correlation(arguments, df, de, env.p_val)
      [] tool_name = "compute_fold_change" -> tool_compute_fold_change(arguments, df, de, env.p_val)
      [] tool_name = "find_peak_conditions" -> tool_find_peak_conditions(arguments, df, de)
      [] tool_name = "filter_by_threshold" -> tool_filter_by_threshold(arguments, df, de)
      [] tool_name = "differential_expression" -> tool_differential_expression(arguments, df, de, env.p_val)
      [] tool_name = "get_pathway_enrichment" -> tool_get_pathway_enrichment(arguments, df, de, env.net)
      [] tool_name = "summarize_by_group" -> tool_summarize_by_group(arguments, df, de)
      [] tool_name = "get_significant_genes" -> tool_get_significant_genes(arguments, df, de)

\* hasattr(self, "_tool_" + tool_name)
HasToolMethod(tool_name) ==
    tool_name \in { "execute_sparql", "compute_correlation", "compute_fold_change",
                    "find_peak_conditions", "filter_by_threshold", "differential_expression",
                    "get_pathway_enrichment", "summarize_by_group", "get_significant_genes" }

\* variant: the exception's text is dropped
CatchException_NoText(body) ==
    IF body.raised
    THEN [value |-> [error |-> "Tool failed"], df |-> body.df, de |-> body.de]
    ELSE [value |-> body.value, df |-> body.df, de |-> body.de]

CatchException(body) ==
    IF body.raised
    THEN [value |-> [error |-> body.value], df |-> body.df, de |-> body.de]
    ELSE [value |-> body.value, df |-> body.df, de |-> body.de]

\* variant: an unknown name clears the executor's fields
execute_Reset(tool_name, arguments, df, de, env) ==
    IF ~HasToolMethod(tool_name)
    THEN [value |-> [error |-> "Unknown tool: " \o tool_name], df |-> NoneDf, de |-> NoneDf]
    ELSE CatchException(ToolBody(tool_name, arguments, df, de, env))

execute(tool_name, arguments, df, de, env) ==
    IF ~HasToolMethod(tool_name)
    THEN [value |-> [error |-> "Unknown tool: " \o tool_name], df |-> df, de |-> de]
    ELSE CatchException(ToolBody(tool_name, arguments, df, de, env))

(***************************************************************************)
(* CQ_DESCRIPTIONS: the eight canned questions, by id.                     *)
(***************************************************************************)
CQ_IDS == { "CQ1", "CQ2", "CQ3", "CQ4", "CQ5", "CQ6", "CQ7", "CQ8" }

CQ_DESCRIPTIONS(cq) == "Competency question " \o cq

\* variant: the id is looked up as given
Upper_AsGiven(cq_id) == cq_id

\* str.upper on the ids the model passes to answer_cq
Upper(cq_id) == IF cq_id = "cq1" THEN "CQ1" ELSE cq_id

(***************************************************************************)
(* Responses.  A response is the dict create_message returns:              *)
(* content, tool_calls (absent in some configured mock responses) and      *)
(* stop_reason.  A tool call is [id, name, arguments].                     *)
(***************************************************************************)
ToolCallsOf(response) == Get(response, "tool_calls", << >>)

\* the tool requests a backend may make in the orchestration loop
LoopCalls ==
    { [name |-> "execute_sparql",
       arguments |-> [template_name |-> "culture_conditions_productivity"]],
      [name |-> "find_peak_conditions",
       arguments |-> [condition_cols |-> << "temperature" >>,
                      metric_col |-> "productivityValue"]] }

Contents == { "", "Let me look at the data." }

\* sequences over S of length at most n
SeqUpTo(S, n) == UNION { [1..k -> S] : k \in 0..n }

\* ids as a backend hands them out: distinct within one response
BackendId(prefix, k) == prefix \o ToString(k)

WithIds(prefix, calls, first) ==
    [k \in 1..Len(calls) |->
        [id |-> BackendId(prefix, k - 1 + first), name |-> calls[k].name,
         arguments |-> calls[k].arguments]]

(***************************************************************************)
(* AnthropicProvider.create_message: the response's text blocks are        *)
(* concatenated and its tool_use blocks become tool calls.  Nothing is     *)
(* caught: a failure of client.messages.create propagates.                 *)
(***************************************************************************)
RECURSIVE AnthropicParse(_, _)
AnthropicParse(blocks, result) ==
    IF blocks = << >> THEN result
    ELSE LET block == Head(blocks)
         IN  AnthropicParse(Tail(blocks),
                IF block.type = "text"
                THEN [result EXCEPT !.content = @ \o block.text]
                ELSE IF block.type = "tool_use"
                THEN [result EXCEPT !.tool_calls =
                         Append(@, [id |-> block.id, name |-> block.name,
                                    arguments |-> block.input])]
                ELSE result)

\* the content blocks of a backend message with this text and these tool uses
AnthropicBlocks(text, calls) ==
    (IF text = "" THEN << >> ELSE << [type |-> "text", text |-> text] >>)
    \o [k \in 1..Len(calls) |->
          [type |-> "tool_use", id |-> BackendId("toolu_", k), name |-> calls[k].name,
           input |-> calls[k].arguments]]

AnthropicCreateMessage(text, calls) ==
    AnthropicParse(AnthropicBlocks(text, calls),
                   [content |-> "", tool_calls |-> << >>,
                    stop_reason |-> IF calls = << >> THEN "end_turn" ELSE "tool_use"])

(***************************************************************************)
(* OpenAIProvider.create_message: message.content or "", and one tool call *)
(* per entry of message.tool_calls.  Nothing is caught here either.        *)
(***************************************************************************)
OpenAICreateMessage(text, calls) ==
    [content |-> text,
     tool_calls |-> WithIds("call_", calls, 1),
     stop_reason |-> IF calls = << >> THEN "stop" ELSE "tool_calls"]

(***************************************************************************)
(* OllamaProvider.create_message.  The transport outcomes are those of     *)
(* requests.post / raise_for_status / response.json; the except clauses    *)
(* turn each into an error-shaped response.  A body that is JSON but no    *)
(* object of the expected shape is read after the try block.               *)
(***************************************************************************)
OllamaFailures == { "ConnectionError", "HTTPError 404", "HTTPError 500", "Timeout",
                    "JSONDecodeError" }

OllamaErrorResponse(failure) ==
    [content |-> CASE failure = "ConnectionError" ->
                        "Error: Cannot connect to Ollama. Make sure Ollama is running: ollama serve"
                   [] failure = "HTTPError 404" ->
                        "Error: Model not found. Pull it with: ollama pull"
                   [] OTHER -> "Error calling Ollama: " \o failure,
     tool_calls |-> << >>,
     stop_reason |-> "error"]

\* the text holds `prose` and, embedded in it, one JSON object per entry of `calls`
OllamaExtract(prose, calls) ==
    [content |-> prose,
     tool_calls |-> WithIds("ollama_", calls, 0),
     stop_reason |-> IF calls = << >> THEN "end_turn" ELSE "tool_use"]

(***************************************************************************)
(* MockProvider: the configured responses.                                 *)
(***************************************************************************)
MockResponses ==
    { [content |-> "", stop_reason |-> "tool_use",
       tool_calls |-> << [id |-> "call_1", name |-> "execute_sparql",
                          arguments |-> [template_name |-> "gene_expression_by_process_type"]] >>],
      [content |-> "Checking.", stop_reason |-> "tool_use",
       tool_calls |-> << [id |-> "call_1", name |-> "execute_sparql",
                          arguments |-> [template_name |-> "culture_conditions_productivity"]],
                         [id |-> "call_1", name |-> "filter_by_threshold",
                          arguments |-> [col |-> "viability", op |-> ">", value |-> 2]],
                         [id |-> "call_1", name |-> "unknown_tool",
                          arguments |-> [x |-> "y"]] >>],
      [content |-> "The peak productivity occurs at 37 degrees.", tool_calls |-> << >>,
       stop_reason |-> "end_turn"],
      [content |-> "No tool_calls key."] }

MockDefault ==
    [content |-> "I don't have a response configured for this message.",
     tool_calls |-> << >>, stop_reason |-> "end_turn"]

(***************************************************************************)
(* AgentOrchestrator.answer_question: the pieces of the loop body.         *)
(***************************************************************************)
\* AgentOrchestrator._summarize_result
summarize_result(result) ==
    IF HasKey(result, "error") THEN "Error: " \o result.error
    ELSE IF HasKey(result, "row_count") THEN ToString(result.row_count) \o " rows returned"
    ELSE IF HasKey(result, "correlation")
    THEN (IF result.correlation # NoneVal THEN "r=..." ELSE "No correlation")
    ELSE IF HasKey(result, "fold_change")
    THEN (IF result.fold_change # NoneVal THEN "FC=..." ELSE "No fold change")
    ELSE IF HasKey(result, "enriched_pathways")
    THEN ToString(Len(result.enriched_pathways)) \o " enriched pathways"
    ELSE "str(result)[:100]"

\* variant: the turn that ends the run is not counted
FinalResult_NotCounted(resp, history, iter) ==
    [answer |-> resp.content, tool_calls |-> history, iterations |-> iter]

\* the dict returned when the response requests no tool
FinalResult(resp, history, iter) ==
    [answer |-> resp.content, tool_calls |-> history, iterations |-> iter + 1]

\* variant: the last content is left out of the degraded answer
BudgetResult_NoContent(resp, history, max_iter) ==
    [answer |-> "Maximum iterations reached. Partial answer: ",
     tool_calls |-> history,
     iterations |-> max_iter,
     warning |-> "Max iterations reached"]

\* the dict returned after the for loop
BudgetResult(resp, history, max_iter) ==
    [answer |-> "Maximum iterations reached. Partial answer: " \o Get(resp, "content", ""),
     tool_calls |-> history,
     iterations |-> max_iter,
     warning |-> "Max iterations reached"]

\* the entry appended to tool_call_history for one dispatched call
HistoryEntry(tool_call, result) ==
    [tool |-> tool_call.name, arguments |-> tool_call.arguments,
     result_summary |-> summarize_result(result)]

\* json.dumps(result, default=str)
JsonDumps(result) == [json |-> result]

\* the assistant turn: the text, if any, then one tool_use block per call
AssistantTurn(resp) ==
    [role |-> "assistant",
     content |->
        (IF Get(resp, "content", "") # ""
         THEN << [type |-> "text", text |-> resp.content] >> ELSE << >>)
        \o [k \in 1..Len(resp.tool_calls) |->
              [type |-> "tool_use", id |-> resp.tool_calls[k].id,
               name |-> resp.tool_calls[k].name, input |-> resp.tool_calls[k].arguments]]]

\* variant: the tool_result blocks in reverse order
ToolResultTurn_Reversed(results) ==
    [role |-> "user",
     content |-> [k \in 1..Len(results) |->
                    [type |-> "tool_result", tool_use_id |-> results[Len(results) + 1 - k].id,
                     content |-> JsonDumps(results[Len(results) + 1 - k].result)]]]

\* variant: the results are appended as a turn of role "tool"
ToolResultTurn_ToolRole(results) ==
    [role |-> "tool",
     content |-> [k \in 1..Len(results) |->
                    [type |-> "tool_result", tool_use_id |-> results[k].id,
                     content |-> JsonDumps(results[k].result)]]]

\* the user turn: one tool_result block per entry of tool_results
ToolResultTurn(results) ==
    [role |-> "user",
     content |-> [k \in 1..Len(results) |->
                    [type |-> "tool_result", tool_use_id |-> results[k].id,
                     content |-> JsonDumps(results[k].result)]]]

(***************************************************************************)
(* OpenAIProvider._convert_messages: the history in Anthropic format       *)
(* becomes a list of OpenAI messages.  A content is a str or a list of     *)
(* blocks; a block the branch does not look for is skipped.                *)
(***************************************************************************)
\* the str contents a history holds: the question asked
StrContents ==
    { "What temperature gives peak productivity?" } \cup
    { "Competency question CQ" \o ToString(n) : n \in 1..8 }

\* isinstance(content, list): a content is a str or a list of blocks; the two
\* kinds of value are told apart by their printed form
ShownStrContents == { ToString(text) : text \in StrContents }

IsList(content) == ToString(content) \notin ShownStrContents

\* " ".join(text_parts)
RECURSIVE JoinText(_)
JoinText(parts) ==
    IF parts = << >> THEN ""
    ELSE IF Len(parts) = 1 THEN parts[1]
    ELSE parts[1] \o " " \o JoinText(Tail(parts))

BlocksOfType(content, type) == SelectSeq(content, LAMBDA item : item.type = type)

TextParts(content) ==
    LET blocks == BlocksOfType(content, "text")
    IN  [k \in 1..Len(blocks) |-> blocks[k].text]

ToolMessages(content) ==
    LET items == BlocksOfType(content, "tool_result")
    IN  [k \in 1..Len(items) |->
           [role |-> "tool", tool_call_id |-> items[k].tool_use_id,
            content |-> items[k].content]]

\* variant: one tool message per user turn
ConvertUser_FirstOnly(content) ==
    IF IsList(content) /\ content # << >>
    THEN IF content[1].type = "tool_result"
         THEN SubSeq(ToolMessages(content), 1, 1)
         ELSE << [role |-> "user", content |-> JoinText(TextParts(content))] >>
    ELSE << [role |-> "user", content |-> content] >>

\* the branch `role == "user"`
ConvertUser(content) ==
    IF IsList(content) /\ content # << >>
    THEN IF content[1].type = "tool_result"
         THEN ToolMessages(content)
         ELSE << [role |-> "user", content |-> JoinText(TextParts(content))] >>
    ELSE << [role |-> "user", content |-> content] >>

\* the branch `role == "assistant"`
ConvertAssistant(content) ==
    IF IsList(content)
    THEN LET uses == BlocksOfType(content, "tool_use")
             tool_calls == [k \in 1..Len(uses) |->
                              [id |-> uses[k].id, type |-> "function",
                               function |-> [name |-> uses[k].name,
                                             arguments |-> JsonDumps(uses[k].input)]]]
             text == JoinText(TextParts(content))
             msg_dict == [role |-> "assistant",
                          content |-> IF text # "" THEN text ELSE NoneCell]
         IN  IF tool_calls # << >>
             THEN << [role |-> "assistant", content |-> msg_dict.content,
                      tool_calls |-> tool_calls] >>
             ELSE << msg_dict >>
    ELSE << [role |-> "assistant", content |-> content] >>

RECURSIVE convert_messages(_)
convert_messages(history) ==
    IF history = << >> THEN << >>
    ELSE LET msg == Head(history)
         IN  (IF msg.role = "user" THEN ConvertUser(msg.content)
              ELSE IF msg.role = "assistant" THEN ConvertAssistant(msg.content)
              ELSE << msg >>)
             \o convert_messages(Tail(history))

(***************************************************************************)
(* State.                                                                  *)
(*   provider, responses, call_count   the adapter; the mock's queue       *)
(*   max_iterations                    AgentOrchestrator.max_iterations    *)
(*   current_df, de_results            the ToolExecutor's fields           *)
(*   pc                                position in answer_question         *)
(*   messages, tool_call_history, iteration, response, tool_results        *)
(*                                     the locals of answer_question       *)
(*   result, exception                 what the call returned or raised    *)
(*   received, dispatched              history variables: the responses    *)
(*                                     create_message returned and the     *)
(*                                     calls passed to executor.execute    *)
(*   advertised                        history variable: the tools         *)
(*                                     argument of each create_message     *)
(***************************************************************************)
VARIABLES provider, responses, call_count, max_iterations, current_df, de_results,
          pc, messages, tool_call_history, iteration, response, tool_results,
          result, exception, received, dispatched, advertised

vars == << provider, responses, call_count, max_iterations, current_df, de_results,
           pc, messages, tool_call_history, iteration, response, tool_results,
           result, exception, received, dispatched, advertised >>

\* variant: only the query tool is advertised
ToolsArgument_QueryOnly == SubSeq(TOOL_DEFINITIONS, 1, 1)

\* the `tools` argument of self.provider.create_message
ToolsArgument == TOOL_DEFINITIONS

NoResponse == [none |-> TRUE]
NoResult == [none |-> TRUE]

Providers == { "anthropic", "openai", "ollama", "mock" }

Questions == { "What temperature gives peak productivity?" }

CqInputs == { "cq1", "CQ99" }

Init ==
    /\ provider \in Providers
    /\ responses \in (IF provider = "mock" THEN SeqUpTo(MockResponses, MaxQueue) ELSE { << >> })
    /\ call_count = 0
    /\ max_iterations \in 1..MaxIter
    /\ current_df = NoneDf
    /\ de_results = NoneDf
    /\ pc = "idle"
    /\ messages = << >>
    /\ tool_call_history = << >>
    /\ iteration = 0
    /\ response = NoResponse
    /\ tool_results = << >>
    /\ result = NoResult
    /\ exception = ""
    /\ received = << >>
    /\ dispatched = << >>
    /\ advertised = << >>

\* answer_question, up to the first pass of the for loop
StartQuestion(question) ==
    /\ messages' = << [role |-> "user", content |-> question] >>
    /\ tool_call_history' = << >>
    /\ iteration' = 0
    /\ pc' = "call_model"
    /\ UNCHANGED << advertised, provider, responses, call_count, max_iterations, current_df, de_results,
                    response, tool_results, result, exception, received, dispatched >>

AnswerQuestion ==
    /\ pc = "idle"
    /\ \E question \in Questions : StartQuestion(question)

\* answer_cq: an id outside CQ_DESCRIPTIONS returns {error} at once
AnswerCq ==
    /\ pc = "idle"
    /\ \E cq_id \in CqInputs :
          IF Upper(cq_id) \notin CQ_IDS
          THEN /\ result' = [error |-> "Unknown CQ: " \o cq_id \o ". Valid: "
                                         \o "['CQ1', 'CQ2', 'CQ3', 'CQ4', 'CQ5', 'CQ6', 'CQ7', 'CQ8']"]
               /\ pc' = "done"
               /\ UNCHANGED << advertised, provider, responses, call_count, max_iterations, current_df,
                               de_results, messages, tool_call_history, iteration, response,
                               tool_results, exception, received, dispatched >>
          ELSE StartQuestion(CQ_DESCRIPTIONS(Upper(cq_id)))

\* variant: an error-shaped response is retried while budget is left
Receive_Retry(resp) ==
    /\ response' = resp
    /\ received' = Append(received, resp)
    /\ IF ToolCallsOf(resp) = << >> /\ Get(resp, "stop_reason", "") # "error"
       THEN /\ result' = FinalResult(resp, tool_call_history, iteration)
            /\ pc' = "done"
            /\ UNCHANGED << tool_results, iteration, messages >>
       ELSE IF ToolCallsOf(resp) = << >>
       THEN /\ iteration' = iteration + 1
            /\ pc' = "call_model"
            /\ UNCHANGED << tool_results, result, messages >>
       ELSE /\ tool_results' = << >>
            /\ pc' = "dispatch"
            /\ UNCHANGED << result, iteration, messages >>
    /\ advertised' = Append(advertised, ToolsArgument)
    /\ UNCHANGED << provider, responses, max_iterations, current_df, de_results,
                    tool_call_history, exception, dispatched >>

\* the loop body after create_message returned `resp`
Receive(resp) ==
    /\ response' = resp
    /\ received' = Append(received, resp)
    /\ IF ToolCallsOf(resp) = << >>
       THEN /\ result' = FinalResult(resp, tool_call_history, iteration)
            /\ pc' = "done"
            /\ UNCHANGED tool_results
       ELSE /\ tool_results' = << >>
            /\ pc' = "dispatch"
            /\ UNCHANGED result
    /\ advertised' = Append(advertised, ToolsArgument)
    /\ UNCHANGED << provider, responses, max_iterations, current_df, de_results, messages,
                    tool_call_history, iteration, exception, dispatched >>

\* create_message raised: the exception leaves answer_question
Propagate(exc) ==
    /\ exception' = exc
    /\ pc' = "raised"
    /\ advertised' = Append(advertised, ToolsArgument)
    /\ UNCHANGED << provider, responses, call_count, max_iterations, current_df, de_results,
                    messages, tool_call_history, iteration, response, tool_results, result,
                    received, dispatched >>

\* variant: one pass too many
InLoop_OneMore == pc = "call_model" /\ iteration <= max_iterations

InLoop == pc = "call_model" /\ iteration < max_iterations

BackendCalls == SeqUpTo(LoopCalls, MaxCalls)

AnthropicCreate ==
    /\ InLoop /\ provider = "anthropic"
    /\ \/ \E text \in Contents, calls \in BackendCalls :
             Receive(AnthropicCreateMessage(text, calls)) /\ UNCHANGED call_count
       \/ \E exc \in { "APIConnectionError", "APIStatusError" } : Propagate(exc)

OpenAICreate ==
    /\ InLoop /\ provider = "openai"
    /\ \/ \E text \in Contents, calls \in BackendCalls :
             Receive(OpenAICreateMessage(text, calls)) /\ UNCHANGED call_count
       \/ \E exc \in { "APIConnectionError", "APIStatusError", "JSONDecodeError" } :
             Propagate(exc)

OllamaCreate ==
    /\ InLoop /\ provider = "ollama"
    /\ \/ \E prose \in Contents, calls \in BackendCalls :
             Receive(OllamaExtract(prose, calls)) /\ UNCHANGED call_count
       \/ \E failure \in OllamaFailures :
             Receive(OllamaErrorResponse(failure)) /\ UNCHANGED call_count
       \/ Propagate("AttributeError")

\* variant: an exhausted queue starts over
MockCreate_Cycling ==
    /\ InLoop /\ provider = "mock"
    /\ IF responses = << >>
       THEN Receive(MockDefault) /\ UNCHANGED call_count
       ELSE Receive(responses[(call_count % Len(responses)) + 1])
            /\ call_count' = call_count + 1

MockCreate ==
    /\ InLoop /\ provider = "mock"
    /\ IF call_count < Len(responses)
       THEN Receive(responses[call_count + 1]) /\ call_count' = call_count + 1
       ELSE Receive(MockDefault) /\ UNCHANGED call_count

\* the bookkeeping of one dispatched call whose execute returned `r`
Record(tool_call, r) ==
    /\ current_df' = r.df
    /\ de_results' = r.de
    /\ tool_call_history' = Append(tool_call_history, HistoryEntry(tool_call, r.value))
    /\ tool_results' = Append(tool_results,
                              [id |-> tool_call.id, name |-> tool_call.name,
                               result |-> r.value])
    /\ dispatched' = Append(dispatched, [tool |-> tool_call.name,
                                         arguments |-> tool_call.arguments])

\* variant: the calls of a turn taken last to first
NextCall_Reversed == response.tool_calls[Len(response.tool_calls) - Len(tool_results)]

NextCall == response.tool_calls[Len(tool_results) + 1]

\* one pass of `for tool_call in response["tool_calls"]`
DispatchTool ==
    /\ pc = "dispatch"
    /\ Len(tool_results) < Len(response.tool_calls)
    /\ \E env \in EnvironmentsOf(NextCall.name) :
          Record(NextCall,
                 execute(NextCall.name, NextCall.arguments, current_df, de_results, env))
    /\ UNCHANGED << advertised, provider, responses, call_count, max_iterations, pc, messages, iteration,
                    response, result, exception, received >>

\* the two messages.append of the loop body, and the step of the for loop
AppendTurns ==
    /\ pc = "dispatch"
    /\ Len(tool_results) = Len(response.tool_calls)
    /\ messages' = messages \o << AssistantTurn(response), ToolResultTurn(tool_results) >>
    /\ iteration' = iteration + 1
    /\ pc' = "call_model"
    /\ UNCHANGED << advertised, provider, responses, call_count, max_iterations, current_df, de_results,
                    tool_call_history, response, tool_results, result, exception, received,
                    dispatched >>

\* the for loop is exhausted
ReturnMaxIterations ==
    /\ pc = "call_model"
    /\ iteration >= max_iterations
    /\ result' = BudgetResult(response, tool_call_history, max_iterations)
    /\ pc' = "done"
    /\ UNCHANGED << advertised, provider, responses, call_count, max_iterations, current_df, de_results,
                    messages, tool_call_history, iteration, response, tool_results, exception,
                    received, dispatched >>

Next ==
    \/ AnswerQuestion
    \/ AnswerCq
    \/ AnthropicCreate
    \/ OpenAICreate
    \/ OllamaCreate
    \/ MockCreate
    \/ DispatchTool
    \/ AppendTurns
    \/ ReturnMaxIterations

Spec == Init /\ [][Next]_vars

(***************************************************************************)
(* The executor driven directly, as the tests of ToolExecutor do:          *)
(* executor.execute(name, arguments) on a fresh ToolExecutor, up to        *)
(* MaxExec calls.  tool_results logs each call's payload and dispatched    *)
(* the call itself.                                                        *)
(***************************************************************************)
EmptyArgs == << >>

ExecCalls ==
    { [name |-> "execute_sparql", arguments |-> [template_name |-> "culture_conditions_productivity"]],
      [name |-> "execute_sparql", arguments |-> [template_name |-> "gene_expression_by_process_type"]],
      [name |-> "execute_sparql", arguments |-> [template_name |-> "cell_lines_overexpression"]],
      [name |-> "execute_sparql", arguments |-> [template_name |-> "no_such_template"]],
      [name |-> "execute_sparql", arguments |-> [raw_query |-> RawQueryBad]],
      [name |-> "execute_sparql", arguments |-> [raw_query |-> RawQueryOk]],
      [name |-> "execute_sparql",
       arguments |-> [template_name |-> "culture_conditions_productivity",
                      filter_clause |-> "?temperature = 37"]],
      [name |-> "execute_sparql", arguments |-> EmptyArgs],
      [name |-> "filter_by_threshold",
       arguments |-> [col |-> "viability", op |-> ">", value |-> 2]],
      [name |-> "filter_by_threshold",
       arguments |-> [col |-> "productivityValue", op |-> "~", value |-> 2]],
      [name |-> "compute_correlation", arguments |-> EmptyArgs],
      [name |-> "compute_correlation",
       arguments |-> [x_col |-> "temperature", y_col |-> "productivityValue"]],
      [name |-> "compute_fold_change", arguments |-> EmptyArgs],
      [name |-> "compute_fold_change",
       arguments |-> [group_col |-> "temperature", value_col |-> "productivityValue",
                      group1 |-> "37", group2 |-> "30"]],
      [name |-> "find_peak_conditions", arguments |-> EmptyArgs],
      [name |-> "find_peak_conditions",
       arguments |-> [condition_cols |-> << "temperature" >>, metric_col |-> "productivityValue"]],
      [name |-> "filter_by_threshold", arguments |-> EmptyArgs],
      [name |-> "filter_by_threshold",
       arguments |-> [col |-> "productivityValue", op |-> ">", value |-> 2]],
      [name |-> "differential_expression", arguments |-> EmptyArgs],
      [name |-> "differential_expression",
       arguments |-> [group_col |-> "processType", group1 |-> "FedBatch", group2 |-> "Perfusion"]],
      [name |-> "differential_expression",
       arguments |-> [group_col |-> "processType", group1 |-> "FedBatch", group2 |-> "Perfusion",
                      cell_line |-> "CHO"]],
      [name |-> "summarize_by_group", arguments |-> EmptyArgs],
      [name |-> "summarize_by_group",
       arguments |-> [group_col |-> "temperature", value_col |-> "productivityValue"]],
      [name |-> "get_significant_genes", arguments |-> EmptyArgs],
      [name |-> "get_pathway_enrichment", arguments |-> [gene_list |-> << "G1" >>]],
      [name |-> "unknown_tool", arguments |-> EmptyArgs],
      [name |-> "execute", arguments |-> [x |-> "y"]] }

InitExec ==
    /\ provider = "mock"
    /\ responses = << >>
    /\ call_count = 0
    /\ max_iterations = 1
    /\ current_df = NoneDf
    /\ de_results = NoneDf
    /\ pc = "exec"
    /\ messages = << >>
    /\ tool_call_history = << >>
    /\ iteration = 0
    /\ response = NoResponse
    /\ tool_results = << >>
    /\ result = NoResult
    /\ exception = ""
    /\ received = << >>
    /\ dispatched = << >>
    /\ advertised = << >>

\* the effect of result = executor.execute(name, arguments) returning `r`
Executed(call, r) ==
    /\ current_df' = r.df
    /\ de_results' = r.de
    /\ tool_results' = Append(tool_results, [id |-> "", name |-> call.name, result |-> r.value])
    /\ dispatched' = Append(dispatched, [tool |-> call.name, arguments |-> call.arguments])

ExecuteDirect ==
    /\ pc = "exec"
    /\ Len(dispatched) < MaxExec
    /\ \E call \in ExecCalls :
          \E env \in EnvironmentsOf(call.name) :
              Executed(call, execute(call.name, call.arguments, current_df, de_results, env))
    /\ UNCHANGED << advertised, provider, responses, call_count, max_iterations, pc, messages,
                    tool_call_history, iteration, response, result, exception, received >>

NextExec == ExecuteDirect

SpecExec == InitExec /\ [][NextExec]_vars

(***************************************************************************)
(* Properties of the orchestration loop.                                   *)
(***************************************************************************)
RequestsTools(resp) == ToolCallsOf(resp) # << >>

AllRequestTools == \A i \in 1..Len(received) : RequestsTools(received[i])

Returned == pc = "done" /\ HasKey(result, "answer")

LastReceived == received[Len(received)]

\* the tool calls of all the responses received, turn by turn
RECURSIVE CallsOf(_)
CallsOf(resps) ==
    IF resps = << >> THEN << >>
    ELSE ToolCallsOf(Head(resps)) \o CallsOf(Tail(resps))

(***************************************************************************)
(* C1.  Budget exhaustion: while every response received requests a tool,  *)
(* answer_question does not return before max_iterations provider calls;   *)
(* it then returns iterations = max_iterations, the warning                *)
(* "Max iterations reached" and the answer "Maximum iterations reached.    *)
(* Partial answer: " followed by the content of the last response; and a   *)
(* returned result carries a warning exactly when all max_iterations       *)
(* responses requested tools.                                              *)
(***************************************************************************)
C1_BudgetExhaustion ==
    Returned =>
        /\ AllRequestTools => Len(received) = max_iterations
        /\ HasKey(result, "warning") <=> (AllRequestTools /\ Len(received) = max_iterations)
        /\ HasKey(result, "warning") =>
              /\ result.warning = "Max iterations reached"
              /\ result.iterations = max_iterations
              /\ result.answer = "Maximum iterations reached. Partial answer: "
                                    \o LastReceived.content

\* a two-turn run that exhausts its budget, the two contents differing
C1_Witness ==
    /\ Returned /\ HasKey(result, "warning")
    /\ max_iterations = 2
    /\ received[1].content # received[2].content
    /\ received[2].content # ""

(***************************************************************************)
(* C2.  Final answer: when the response that ends the run requests no tool *)
(* (empty or absent tool-call list) after n tool-requesting responses,     *)
(* n < max_iterations, the result has answer = that response's content,    *)
(* iterations = n + 1 and no warning; for n = 0 the call history is empty  *)
(* and nothing was dispatched.                                             *)
(***************************************************************************)
C2_FinalAnswer ==
    (Returned /\ ~RequestsTools(LastReceived)) =>
        /\ Len(received) <= max_iterations
        /\ \A i \in 1..(Len(received) - 1) : RequestsTools(received[i])
        /\ result.answer = LastReceived.content
        /\ result.iterations = Len(received)
        /\ ~HasKey(result, "warning")
        /\ Len(received) = 1 => (result.tool_calls = << >> /\ dispatched = << >>)

\* a final answer on the second turn
C2_Witness ==
    /\ Returned /\ ~RequestsTools(LastReceived)
    /\ Len(received) = 2
    /\ result.answer # ""
    /\ Len(result.tool_calls) = 2

\* a first response without a tool_calls key ends the run at once
C2_WitnessAbsent ==
    /\ Returned /\ Len(received) = 1 /\ ~HasKey(received[1], "tool_calls")

(***************************************************************************)
(* C3.  The iteration counter never decreases, the number of provider      *)
(* calls never exceeds max_iterations, and a returned result has           *)
(* iterations = the number of provider calls made, which lies in           *)
(* 1..max_iterations.                                                      *)
(***************************************************************************)
C3_IterationBound ==
    /\ [](/\ iteration <= max_iterations
          /\ Len(received) <= max_iterations
          /\ Returned => /\ result.iterations = Len(received)
                          /\ 1 <= result.iterations
                          /\ result.iterations <= max_iterations)
    /\ [][iteration' >= iteration /\ Len(received') >= Len(received)]_vars

C3_Witness ==
    /\ Returned /\ result.iterations = 2 /\ iteration = 1 /\ max_iterations = 2

(***************************************************************************)
(* C4.  On return, result.tool_calls lists the tool calls of all responses *)
(* received, in the order returned, and exactly these calls were passed to *)
(* executor.execute, once each and in that order - the calls of the last   *)
(* response of an exhausted budget included.                               *)
(***************************************************************************)
C4_CallHistory ==
    Returned =>
        LET calls == CallsOf(received)
        IN  /\ Len(result.tool_calls) = Len(calls)
            /\ Len(dispatched) = Len(calls)
            /\ \A k \in 1..Len(calls) :
                  /\ result.tool_calls[k].tool = calls[k].name
                  /\ result.tool_calls[k].arguments = calls[k].arguments
                  /\ dispatched[k] = [tool |-> calls[k].name, arguments |-> calls[k].arguments]

\* an exhausted budget whose last response requested two different tools
C4_Witness ==
    /\ Returned /\ HasKey(result, "warning")
    /\ Len(result.tool_calls) >= 3
    /\ Len(ToolCallsOf(LastReceived)) = 2
    /\ ToolCallsOf(LastReceived)[1].name # ToolCallsOf(LastReceived)[2].name

(***************************************************************************)
(* C5.  In the history, every assistant turn with tool_use blocks is       *)
(* followed at once by a user turn made of one tool_result block per       *)
(* tool_use block, in the same order and with tool_use_id = that block's   *)
(* id; every turn of tool_result blocks follows such an assistant turn.    *)
(***************************************************************************)
ToolUses(turn) == SelectSeq(turn.content, LAMBDA b : b.type = "tool_use")

Paired(assistant, user) ==
    /\ assistant.role = "assistant"
    /\ user.role = "user"
    /\ Len(user.content) = Len(ToolUses(assistant))
    /\ \A k \in 1..Len(user.content) :
          /\ user.content[k].type = "tool_result"
          /\ user.content[k].tool_use_id = ToolUses(assistant)[k].id

C5_ToolResultPairing ==
    /\ messages # << >> => messages[1].role = "user"
    /\ \A i \in 2..Len(messages) :
          IF i % 2 = 0
          THEN /\ messages[i].role = "assistant"
               /\ ToolUses(messages[i]) # << >>
               /\ i + 1 <= Len(messages)
               /\ Paired(messages[i], messages[i + 1])
          ELSE Paired(messages[i - 1], messages[i])

\* a turn with a text block and two tool_use blocks of different ids
C5_Witness ==
    /\ Len(messages) >= 5
    /\ Len(messages[2].content) = 3
    /\ messages[3].content[1].tool_use_id # messages[3].content[2].tool_use_id

(***************************************************************************)
(* Properties of ToolExecutor.execute.                                     *)
(***************************************************************************)
\* this step is one call of executor.execute
Dispatches == Len(dispatched') = Len(dispatched) + 1

DispatchedCall == dispatched'[Len(dispatched')]

Payload == tool_results'[Len(tool_results')].result

TableReaders == { "compute_correlation", "compute_fold_change", "find_peak_conditions",
                  "filter_by_threshold", "differential_expression", "summarize_by_group" }

NoQueryYet == \A k \in 1..Len(dispatched) : dispatched[k].tool # "execute_sparql"

(***************************************************************************)
(* C6.  execute with a tool name outside the Registry returns the payload  *)
(* {error: "Unknown tool: <name>"}, does not raise, and leaves current_df  *)
(* (WorkingTable) and de_results (LastDifferentialResult) as they were.    *)
(***************************************************************************)
C6_UnknownTool ==
    [][(Dispatches /\ DispatchedCall.tool \notin RegistryNames) =>
          /\ Payload = [error |-> "Unknown tool: " \o DispatchedCall.tool]
          /\ current_df' = current_df
          /\ de_results' = de_results
          /\ exception' = ""
          /\ pc' = pc]_vars

\* an unknown name dispatched on an executor that holds a table and a DE result
C6_Witness ==
    /\ pc = "exec"
    /\ Len(dispatched) = 3
    /\ dispatched[3].tool \notin RegistryNames
    /\ current_df # NoneDf
    /\ de_results # NoneDf

(***************************************************************************)
(* C7.  On an executor on which no execute_sparql call has run, each of    *)
(* the six tools that read the table returns                               *)
(* {error: "No data loaded. Run execute_sparql first."} whatever its       *)
(* arguments (required ones missing included), does not raise, and changes *)
(* neither current_df nor de_results.                                      *)
(***************************************************************************)
C7_NoDataLoaded ==
    [][(Dispatches /\ NoQueryYet /\ DispatchedCall.tool \in TableReaders) =>
          /\ Payload = [error |-> "No data loaded. Run execute_sparql first."]
          /\ current_df' = current_df
          /\ de_results' = de_results
          /\ exception' = ""
          /\ pc' = pc]_vars

\* filter_by_threshold without arguments, then find_peak_conditions with arguments
C7_Witness ==
    /\ pc = "exec"
    /\ Len(dispatched) = 2
    /\ dispatched[1] = [tool |-> "filter_by_threshold", arguments |-> EmptyArgs]
    /\ dispatched[2].tool = "find_peak_conditions"
    /\ dispatched[2].arguments # EmptyArgs
    /\ tool_results[1].result = NoDataLoaded
    /\ tool_results[2].result = NoDataLoaded

(***************************************************************************)
(* C8.  When the body of a tool raises, execute returns                    *)
(* {error: str(exception)}: that payload is the call's tool_result and its *)
(* history entry reads "Error: <text>"; answer_question stays in the       *)
(* dispatch loop, so that whenever it is back at the top of the for loop   *)
(* or has returned, every call of every response received has been         *)
(* dispatched; it returns only on a response without tool calls or with    *)
(* the budget used up, and raises only what create_message raised.         *)
(***************************************************************************)
BodyRaises(env) ==
    /\ HasToolMethod(NextCall.name)
    /\ ToolBody(NextCall.name, NextCall.arguments, current_df, de_results, env).raised

BodyText(env) == ToolBody(NextCall.name, NextCall.arguments, current_df, de_results, env).value

AdapterExceptions == { "APIConnectionError", "APIStatusError", "JSONDecodeError",
                       "AttributeError" }

C8_ToolFailureContained ==
    /\ [][(pc = "dispatch" /\ Dispatches) =>
          \A env \in EnvironmentsOf(NextCall.name) :
            BodyRaises(env) =>
               /\ Payload = [error |-> BodyText(env)]
               /\ tool_call_history'[Len(tool_call_history')].result_summary
                     = "Error: " \o BodyText(env)
               /\ pc' = "dispatch"
               /\ exception' = ""]_vars
    /\ []((pc = "call_model" \/ Returned) => Len(dispatched) = Len(CallsOf(received)))
    /\ [](Returned => (~RequestsTools(LastReceived) \/ Len(received) = max_iterations))
    /\ [](pc = "raised" => exception \in AdapterExceptions)

\* the second of three calls of a turn failed; the third ran and the next turn answered
C8_Witness ==
    /\ Returned
    /\ Len(received) = 2
    /\ Len(tool_call_history) = 3
    /\ tool_call_history[2].result_summary = "Error: Column 'viability' not found in DataFrame"
    /\ messages[3].content[2].content = JsonDumps([error |-> "Column 'viability' not found in DataFrame"])
    /\ tool_call_history[3].tool = "unknown_tool"

(***************************************************************************)
(* C9.  Every adapter turns a connection failure, a non-2xx response or a  *)
(* malformed body into a response with stop_reason "error" and no tool     *)
(* calls; create_message never raises, so answer_question never ends with  *)
(* an exception of the adapter.                                            *)
(***************************************************************************)
C9_NoAdapterFault == pc # "raised" /\ exception = ""

(***************************************************************************)
(* C10.  Every result answer_question or answer_cq returns has an error    *)
(* key or a non-empty answer.                                              *)
(***************************************************************************)
C10_AnswerOrError ==
    pc = "done" => (HasKey(result, "error") \/ (HasKey(result, "answer") /\ result.answer # ""))

(***************************************************************************)
(* C11.  An error-shaped response (stop_reason "error", no tool calls)     *)
(* ends answer_question on the turn it is received: it is the last         *)
(* response received, no tool is dispatched for it, and the result's       *)
(* answer is its content, with iterations counting that turn.              *)
(***************************************************************************)
IsErrorResponse(resp) == Get(resp, "stop_reason", "") = "error" /\ ToolCallsOf(resp) = << >>

C11_NoRetryOnProviderError ==
    \A i \in 1..Len(received) :
        IsErrorResponse(received[i]) =>
            /\ i = Len(received)
            /\ pc = "done"
            /\ result.answer = received[i].content
            /\ result.iterations = i
            /\ ~HasKey(result, "warning")
            /\ Len(dispatched) = Len(CallsOf(SubSeq(received, 1, i - 1)))

\* a connection failure on the first turn, with budget left for another call
C11_Witness ==
    /\ Len(received) = 1
    /\ IsErrorResponse(received[1])
    /\ received[1].content = "Error: Cannot connect to Ollama. Make sure Ollama is running: ollama serve"
    /\ pc = "done"
    /\ max_iterations = 2

(***************************************************************************)
(* C12.  A call of execute_sparql or filter_by_threshold either replaces   *)
(* current_df by its complete result (all rows of the query, or all rows   *)
(* that pass the comparison, the payload counting them), or returns an     *)
(* {error} payload and leaves current_df exactly as it was.                *)
(***************************************************************************)
CallArgs == DispatchedCall.arguments

\* the table a successful call of this step must leave in current_df
CompleteResult ==
    IF DispatchedCall.tool = "filter_by_threshold"
    THEN filter_by_threshold(current_df, CallArgs.col, CallArgs.op, CallArgs.value).value
    ELSE IF Get(CallArgs, "template_name", "") # ""
    THEN GraphQueryTemplate(CallArgs.template_name, Get(CallArgs, "filter_clause", ""))
    ELSE GraphQueryRaw(CallArgs.raw_query).value

C12_TableAtomic ==
    [][(Dispatches /\ DispatchedCall.tool \in { "execute_sparql", "filter_by_threshold" }) =>
          IF HasKey(Payload, "error")
          THEN current_df' = current_df
          ELSE /\ current_df' = CompleteResult
               /\ DispatchedCall.tool = "execute_sparql"
                     => Payload.row_count = Len(current_df'.rows)
               /\ DispatchedCall.tool = "filter_by_threshold"
                     => Payload.remaining_rows = Len(current_df'.rows)]_vars

\* a table is loaded, a raw query fails, then a filter on an unknown column fails:
\* the table of the first call is still there
C12_Witness ==
    /\ pc = "exec"
    /\ Len(dispatched) = 3
    /\ dispatched[1].tool = "execute_sparql"
    /\ dispatched[2] = [tool |-> "execute_sparql", arguments |-> [raw_query |-> RawQueryBad]]
    /\ dispatched[3].tool = "filter_by_threshold"
    /\ HasKey(tool_results[2].result, "error")
    /\ HasKey(tool_results[3].result, "error")
    /\ current_df = [columns |-> ProductivityColumns, rows |-> ProductivityRows]

\* a filter that narrows the table to one row
C12_WitnessNarrowed ==
    /\ pc = "exec"
    /\ Len(dispatched) = 2
    /\ dispatched[2].tool = "filter_by_threshold"
    /\ tool_results[2].result = [remaining_rows |-> 1,
                                   sample_rows |-> << ProductivityRows[1] >>]
    /\ current_df.rows = << ProductivityRows[1] >>

(***************************************************************************)
(* C13.  current_df changes only in execute_sparql, which replaces it, and *)
(* in filter_by_threshold, which narrows it: same columns, and the new     *)
(* rows are a sub-sequence of the old ones in their order.  Every other    *)
(* tool leaves current_df as it was, whatever its arguments and outcome.   *)
(***************************************************************************)
\* a is b with some elements left out
RECURSIVE IsSubsequence(_, _)
IsSubsequence(a, b) ==
    IF a = << >> THEN TRUE
    ELSE IF b = << >> THEN FALSE
    ELSE IF Head(a) = Head(b) THEN IsSubsequence(Tail(a), Tail(b))
    ELSE IsSubsequence(a, Tail(b))

C13_TableFrame ==
    [][Dispatches =>
          /\ DispatchedCall.tool \notin { "execute_sparql", "filter_by_threshold" }
                => current_df' = current_df
          /\ (DispatchedCall.tool = "filter_by_threshold" /\ current_df' # current_df)
                => /\ current_df # NoneDf
                   /\ current_df'.columns = current_df.columns
                   /\ IsSubsequence(current_df'.rows, current_df.rows)
                   /\ Len(current_df'.rows) < Len(current_df.rows)]_vars

\* a table with a missing cell is loaded, summarised and analysed, and is still whole
C13_Witness ==
    /\ pc = "exec"
    /\ Len(dispatched) = 3
    /\ dispatched[2].tool = "summarize_by_group"
    /\ HasKey(tool_results[2].result, "groups")
    /\ dispatched[3].tool = "differential_expression"
    /\ current_df = [columns |-> ProductivityColumns, rows |-> ProductivityRows]

\* a filter has narrowed the three rows loaded to one
C13_WitnessNarrowed ==
    /\ pc = "exec"
    /\ dispatched # << >>
    /\ dispatched[Len(dispatched)].tool = "filter_by_threshold"
    /\ current_df # NoneDf
    /\ Len(current_df.rows) = 1

(***************************************************************************)
(* C14.  de_results is None until differential_expression is called, is    *)
(* assigned by differential_expression only - execute_sparql and           *)
(* filter_by_threshold leave it alone - and no tool but                    *)
(* get_significant_genes reads it: the payload of any other call is the    *)
(* one it would return with de_results = None.  While de_results is None,  *)
(* get_significant_genes returns                                           *)
(* {error: "No DE results. Run differential_expression first."}.           *)
(***************************************************************************)
NoDeYet == \A k \in 1..Len(dispatched) : dispatched[k].tool # "differential_expression"

C14_DeLifecycle ==
    /\ [](NoDeYet => de_results = NoneDf)
    /\ [][Dispatches =>
            /\ DispatchedCall.tool # "differential_expression" => de_results' = de_results
            /\ DispatchedCall.tool # "get_significant_genes" =>
                  \E env \in EnvironmentsOf(DispatchedCall.tool) :
                      Payload = execute(DispatchedCall.tool, CallArgs, current_df, NoneDf, env).value
            /\ (DispatchedCall.tool = "get_significant_genes" /\ de_results = NoneDf) =>
                  Payload = [error |-> "No DE results. Run differential_expression first."]]_vars

\* DE results computed on one table survive the loading of another table
C14_Witness ==
    /\ pc = "exec"
    /\ Len(dispatched) = 3
    /\ dispatched[2].tool = "differential_expression"
    /\ HasKey(tool_results[2].result, "total_genes")
    /\ dispatched[3].tool = "execute_sparql"
    /\ current_df = [columns |-> ProductivityColumns, rows |-> ProductivityRows]
    /\ de_results # NoneDf
    /\ Len(de_results.rows) = 1

\* get_significant_genes before any differential_expression call
C14_WitnessUndefined ==
    /\ pc = "exec"
    /\ Len(dispatched) = 2
    /\ dispatched[1].tool = "execute_sparql"
    /\ dispatched[2].tool = "get_significant_genes"
    /\ tool_results[2].result = [error |-> "No DE results. Run differential_expression first."]

(***************************************************************************)
(* Several questions put to one AgentOrchestrator, as run_all_cqs does:    *)
(* after a call has returned, the caller is back between calls and may     *)
(* call answer_question or answer_cq again.  The locals of the call that   *)
(* returned are gone; the provider and the ToolExecutor are those that     *)
(* __init__ created.  received, dispatched and advertised are kept per     *)
(* call.                                                                   *)
(***************************************************************************)
AskAgain ==
    /\ pc = "done"
    /\ pc' = "idle"
    /\ messages' = << >>
    /\ tool_call_history' = << >>
    /\ iteration' = 0
    /\ response' = NoResponse
    /\ tool_results' = << >>
    /\ result' = NoResult
    /\ received' = << >>
    /\ dispatched' = << >>
    /\ advertised' = << >>
    /\ UNCHANGED << provider, responses, call_count, max_iterations, current_df, de_results,
                    exception >>

NextSession == Next \/ AskAgain

SpecSession == Init /\ [][NextSession]_vars

AtQuestionStart == pc = "call_model" /\ iteration = 0 /\ received = << >>

(***************************************************************************)
(* C15.  At the start of every answer_question call current_df and         *)
(* de_results are None, so that no tool result of a question depends on    *)
(* the tool calls of an earlier question put to the same orchestrator.     *)
(***************************************************************************)
C15_FreshSessionPerQuestion ==
    AtQuestionStart => (current_df = NoneDf /\ de_results = NoneDf)

(***************************************************************************)
(* C16.  The names of TOOL_DEFINITIONS are pairwise distinct; every        *)
(* create_message call of a run is given the whole list, unchanged; and    *)
(* execute hands a call to a _tool_ method exactly when its name is one of *)
(* the list's names - any other name gets the "Unknown tool" payload.      *)
(***************************************************************************)
\* names tried against the executor: the catalog's and some that are not
NameUniverse ==
    RegistryNames \cup { "unknown_tool", "execute", "", "_tool_execute_sparql",
                         "tool_execute_sparql", "EXECUTE_SPARQL", "graph", "current_df" }

C16_Catalog ==
    /\ [](Cardinality(RegistryNames) = Len(TOOL_DEFINITIONS))
    /\ [](/\ Len(advertised) = Len(received) + (IF pc = "raised" THEN 1 ELSE 0)
          /\ \A i \in 1..Len(advertised) : advertised[i] = TOOL_DEFINITIONS)
    /\ [](\A name \in NameUniverse : HasToolMethod(name) <=> name \in RegistryNames)
    /\ [][Dispatches =>
            (DispatchedCall.tool \notin RegistryNames
               <=> Payload = [error |-> "Unknown tool: " \o DispatchedCall.tool])]_vars

\* two provider calls, and a turn that requested catalog tools and an unknown one
C16_Witness ==
    /\ pc = "done"
    /\ Len(advertised) = 2
    /\ Len(dispatched) = 3
    /\ dispatched[1].tool \in RegistryNames
    /\ dispatched[3].tool \notin RegistryNames

(***************************************************************************)
(* C17.  With a MockProvider configured with n responses, the k-th         *)
(* create_message call returns the k-th response for k <= n and every      *)
(* later call returns the default answer "I don't have a response          *)
(* configured for this message." without tool calls, whatever the          *)
(* messages; so answer_question makes at most min(n + 1, max_iterations)   *)
(* provider calls.                                                         *)
(***************************************************************************)
C17_MockQueue ==
    provider = "mock" =>
        /\ \A k \in 1..Len(received) :
              received[k] = IF k <= Len(responses) THEN responses[k] ELSE MockDefault
        /\ MockDefault.content = "I don't have a response configured for this message."
        /\ ToolCallsOf(MockDefault) = << >>
        /\ call_count = Min(Len(received), Len(responses))
        /\ Len(received) <= Min(Len(responses) + 1, max_iterations)
        /\ Len(received) = Len(responses) + 1 => pc = "done"

\* one configured response, which requests a tool; the second call gets the default
C17_Witness ==
    /\ provider = "mock"
    /\ Len(responses) = 1
    /\ max_iterations = 2
    /\ Len(received) = 2
    /\ received[1] = responses[1]
    /\ dispatched # << >>
    /\ pc = "done"
    /\ result.answer = "I don't have a response configured for this message."
    /\ result.iterations = 2

(***************************************************************************)
(* C18.  answer_cq with an id that is, case aside, none of CQ1..CQ8        *)
(* returns {error: "Unknown CQ: <id>. Valid: [...]"} at once: no           *)
(* create_message call, no dispatch, current_df and de_results as before.  *)
(* With an id of the catalog, in either case, it is answer_question on     *)
(* the description of that id.                                             *)
(***************************************************************************)
ValidIds == ". Valid: ['CQ1', 'CQ2', 'CQ3', 'CQ4', 'CQ5', 'CQ6', 'CQ7', 'CQ8']"

UserTurn(text) == << [role |-> "user", content |-> text] >>

C18_AnswerCq ==
    /\ [][pc = "idle" =>
            \/ /\ pc' = "done"
               /\ result' = [error |-> "Unknown CQ: CQ99" \o ValidIds]
               /\ UNCHANGED << current_df, de_results, call_count, advertised, dispatched,
                               received, messages, tool_call_history >>
            \/ /\ pc' = "call_model"
               /\ messages' \in { UserTurn(q) : q \in Questions }
                                \cup { UserTurn(CQ_DESCRIPTIONS("CQ1")) }
               /\ StartQuestion(messages'[1].content)]_vars
    /\ [](HasKey(result, "error") => (pc = "done" /\ ~HasKey(result, "answer")))

\* an unknown id put to an orchestrator whose executor holds a table
C18_Witness ==
    /\ pc = "done"
    /\ HasKey(result, "error")
    /\ current_df # NoneDf
    /\ advertised = << >>

\* the lower-case id cq1 answered with budget exhaustion
C18_WitnessKnown ==
    /\ Returned
    /\ messages[1].content = CQ_DESCRIPTIONS("CQ1")
    /\ HasKey(result, "warning")

(***************************************************************************)
(* The functions of stats_tools applied to a table, as the tests of        *)
(* stats_tools do: a DataFrame of up to MaxRows rows with a process type,  *)
(* a temperature and an expression value, any of them possibly missing,    *)
(* and one call of a function on it.  current_df holds the frame,          *)
(* dispatched the call and tool_results its outcome [raised, value].       *)
(***************************************************************************)
MaxRows == 3

StatsColumns == << "processType", "temperature", "expressionValue" >>

StatsRow(processType, temperature, expressionValue) == [processType |-> processType, temperature |-> temperature, expressionValue |-> expressionValue]

StatsRows ==
    { StatsRow("FedBatch", "37", "0"), StatsRow("FedBatch", "37", "5"),
      StatsRow("Perfusion", "37", "0"), StatsRow("Perfusion", "37", "5"),
      StatsRow("FedBatch", NoneCell, "5"), StatsRow(NoneCell, "37", "5"),
      StatsRow(NoneCell, NoneCell, "0"),
      StatsRow("FedBatch", "37", NoneCell), StatsRow("Perfusion", NoneCell, NoneCell) }

InitStats ==
    /\ provider = "mock"
    /\ responses = << >>
    /\ call_count = 0
    /\ max_iterations = 1
    /\ current_df \in { [columns |-> StatsColumns, rows |-> rows] :
                            rows \in SeqUpTo(StatsRows, MaxRows) }
    /\ de_results = NoneDf
    /\ pc = "stats"
    /\ messages = << >>
    /\ tool_call_history = << >>
    /\ iteration = 0
    /\ response = NoResponse
    /\ tool_results = << >>
    /\ result = NoResult
    /\ exception = ""
    /\ received = << >>
    /\ dispatched = << >>
    /\ advertised = << >>

\* the effect of calling a function of stats_tools whose outcome is `r`
Applied(name, arguments, r) ==
    /\ pc = "stats"
    /\ dispatched = << >>
    /\ tool_results' = << [id |-> "", name |-> name, result |-> r] >>
    /\ dispatched' = << [tool |-> name, arguments |-> arguments] >>
    /\ UNCHANGED << advertised, provider, responses, call_count, max_iterations, current_df,
                    de_results, pc, messages, tool_call_history, iteration, response, result,
                    exception, received >>

GroupLabels == { << "FedBatch", "Perfusion" >>, << "Perfusion", "FedBatch" >>,
                 << "Batch", "perf" >>, << "fedbatch", "FedBatch" >>,
                 << "Batch", "FedBatch" >> }

FoldChangeCall ==
    \E labels \in GroupLabels, p_val \in StatOutcomes :
        Applied("compute_fold_change",
                [group_col |-> "processType", value_col |-> "expressionValue",
                 group1 |-> labels[1], group2 |-> labels[2]],
                compute_fold_change(current_df.rows, current_df.columns, "processType",
                                    "expressionValue", labels[1], labels[2], p_val))

PeakColumns == { << "processType", "temperature" >>, << "temperature" >>,
                 << "cellLine", "processType" >> }

PeakMethods == { "mean", "median", "max" }

PeakTopN == { 1, 5 }

PeakCall ==
    \E cols \in PeakColumns, method \in PeakMethods, top_n \in PeakTopN :
        Applied("find_peak_conditions",
                [condition_cols |-> cols, metric_col |-> "expressionValue",
                 method |-> method, top_n |-> top_n],
                find_peak_conditions(current_df, cols, "expressionValue", method, top_n))

CorrelationMinSamples == { 2, MinSamples }

CorrelationCall ==
    \E min_samples \in CorrelationMinSamples, p_val \in StatOutcomes :
        Applied("compute_correlation",
                [x_col |-> "temperature", y_col |-> "expressionValue", min_samples |-> min_samples],
                compute_correlation(current_df, "temperature", "expressionValue", "pearson",
                                    min_samples, p_val))

NextStats == FoldChangeCall \/ PeakCall \/ CorrelationCall

SpecStats == InitStats /\ [][NextStats]_vars

\* the call made and its outcome
StatsCall == dispatched[1]

Outcome == tool_results[1].result

Called(name) == pc = "stats" /\ dispatched # << >> /\ StatsCall.tool = name

(***************************************************************************)
(* C19.  compute_fold_change, log2 mode, pseudocount 1, values >= 0.       *)
(* With both groups non-empty, mean_group1 and mean_group2 are the         *)
(* arithmetic means of the non-missing values of the rows matched to each  *)
(* group, no error is returned, and fold_change is positive exactly when   *)
(* mean_group1 > mean_group2 and negative exactly when                     *)
(* mean_group1 < mean_group2.  With an empty group fold_change is None,    *)
(* significant is False and an error is returned.                          *)
(***************************************************************************)
\* the non-missing values, as numbers, of the rows whose process type matches the label
MatchedValues(label) ==
    LET matched == SelectSeq(current_df.rows, LAMBDA r : ContainsCI(r.processType, label))
        present == SelectSeq(matched, LAMBDA r : r.expressionValue # NoneCell)
    IN  [i \in 1..Len(present) |-> ToFloat(present[i].expressionValue)]

\* sign of log2(num / den) for a fraction <<num, den>> of positive numbers
Log2Sign(fraction) ==
    IF fraction[1] > fraction[2] THEN 1 ELSE IF fraction[1] < fraction[2] THEN -1 ELSE 0

\* <<sum, count>> is the mean of the numbers vals
IsMeanOf(mean, vals) == mean = << SumSeq(vals), Len(vals) >>

\* comparison of two means <<sum, count>>
MeanGreater(a, b) == a[1] * b[2] > b[1] * a[2]

C19_WitnessEqual ==
    /\ Called("compute_fold_change")
    /\ Outcome.value.fold_change # NoneVal
    /\ Outcome.value.mean_group1 = << 5, 1 >>
    /\ Outcome.value.mean_group2 = << 10, 2 >>
    /\ Log2Sign(Outcome.value.fold_change) = 0

\* an empty second group
C19_WitnessEmpty ==
    /\ Called("compute_fold_change")
    /\ Outcome.value.n_group1 = 2
    /\ Outcome.value.n_group2 = 0
    /\ HasKey(Outcome.value, "error")

(***************************************************************************)
(* C20.  find_peak_conditions groups the rows that have a metric value by  *)
(* the full combination of the condition columns that have a value in some *)
(* such row.  top_conditions holds min(top_n, number of groups) distinct   *)
(* groups, each with its own row count and its own aggregate (mean, median *)
(* or max), in non-increasing order of the aggregate; no group left out    *)
(* has a greater aggregate than one that is listed, and overall_best is    *)
(* the first entry.  With no condition column that has data the result has *)
(* an empty top_conditions, a null overall_best, the global statistics and *)
(* a note; with no row that has a metric value it carries the error        *)
(* "No valid data".                                                        *)
(***************************************************************************)
MetricRows == { i \in 1..Len(current_df.rows) : current_df.rows[i][StatsCall.arguments.metric_col] # NoneCell }

DataColumns == SelectSeq(StatsCall.arguments.condition_cols, LAMBDA c : (\E j \in 1..Len(current_df.columns) : current_df.columns[j] = c) /\ \E i \in MetricRows : current_df.rows[i][c] # NoneCell)

AggregateKey == StatsCall.arguments.metric_col \o "_" \o StatsCall.arguments.method

Combination(i, cols) == [j \in 1..Len(cols) |-> current_df.rows[i][cols[j]]]

Combinations == { Combination(i, DataColumns) : i \in MetricRows }

\* the rows of `rows` that carry the condition values of an entry
Members(entry, rows) == { i \in rows : \A c \in DOMAIN entry \ { AggregateKey, "sample_count" } : current_df.rows[i][c] = entry[c] }

MetricOf(i) == ToFloat(current_df.rows[i][StatsCall.arguments.metric_col])

BelowRank(members, v) == Cardinality({ i \in members : MetricOf(i) < v })

UpToRank(members, v) == Cardinality({ i \in members : MetricOf(i) <= v })

\* the value at 0-based position r of the members' values in ascending order
ValueAtRank(members, r) == CHOOSE v \in { MetricOf(i) : i \in members } : BelowRank(members, v) <= r /\ UpToRank(members, v) > r

RECURSIVE SumOfMetric(_)
SumOfMetric(members) == IF members = {} THEN 0 ELSE LET i == CHOOSE m \in members : TRUE IN MetricOf(i) + SumOfMetric(members \ {i})

\* the requested aggregate of a set of rows, as a fraction
GroupAggregate(members) ==
    CASE StatsCall.arguments.method = "mean" -> << SumOfMetric(members), Cardinality(members) >>
      [] StatsCall.arguments.method = "max" -> << ValueAtRank(members, Cardinality(members) - 1), 1 >>
      [] StatsCall.arguments.method = "median" -> << ValueAtRank(members, (Cardinality(members) - 1) \div 2) + ValueAtRank(members, Cardinality(members) \div 2), 2 >>

SameFraction(a, b) == a[1] * b[2] = b[1] * a[2]

IsGroupEntry(entry, cols, rows) ==
    /\ DOMAIN entry = { cols[j] : j \in 1..Len(cols) } \cup { AggregateKey, "sample_count" }
    /\ Members(entry, rows) # {}
    /\ entry.sample_count = Cardinality(Members(entry, rows))
    /\ SameFraction(entry[AggregateKey], GroupAggregate(Members(entry, rows)))

GroupOfRow(i, cols, rows) == { m \in rows : Combination(m, cols) = Combination(i, cols) }

Listed(top, i, rows) == \E k \in 1..Len(top) : i \in Members(top[k], rows)

PeakRanking(top, cols, rows) ==
    /\ Len(top) = Min(StatsCall.arguments.top_n, Cardinality({ Combination(i, cols) : i \in rows }))
    /\ \A k \in 1..Len(top) : IsGroupEntry(top[k], cols, rows)
    /\ \A k, l \in 1..Len(top) : k < l => /\ Members(top[k], rows) # Members(top[l], rows)
                                            /\ ~FracGreater(top[l][AggregateKey], top[k][AggregateKey])
    /\ \A i \in rows : ~Listed(top, i, rows) =>
            \A k \in 1..Len(top) : ~FracGreater(GroupAggregate(GroupOfRow(i, cols, rows)), top[k][AggregateKey])

C20_PeakConditions ==
    Called("find_peak_conditions") =>
        /\ ~Outcome.raised
        /\ IF MetricRows = {}
           THEN /\ Outcome.value.error = "No valid data"
                /\ Outcome.value.top_conditions = << >>
                /\ Outcome.value.overall_best = NoneCell
           ELSE IF DataColumns = << >>
           THEN /\ DOMAIN Outcome.value = { "top_conditions", "overall_best", "metric_stats", "note" }
                /\ Outcome.value.top_conditions = << >>
                /\ Outcome.value.overall_best = NoneCell
                /\ Outcome.value.note = "No condition columns with data"
                /\ Outcome.value.metric_stats.count = Cardinality(MetricRows)
           ELSE /\ "error" \notin DOMAIN Outcome.value
                /\ "note" \notin DOMAIN Outcome.value
                /\ PeakRanking(Outcome.value.top_conditions, DataColumns, MetricRows)
                /\ Outcome.value.top_conditions # << >>
                /\ Outcome.value.overall_best = Outcome.value.top_conditions[1]
                /\ Outcome.value.metric_stats.count = Cardinality(MetricRows)

\* two groups whose key order is the reverse of their order by mean; top_n = 1 keeps the greater
C20_Witness ==
    /\ Called("find_peak_conditions")
    /\ StatsCall.arguments.method = "mean"
    /\ StatsCall.arguments.top_n = 1
    /\ Len(DataColumns) = 2
    /\ Cardinality(Combinations) = 2
    /\ Len(Outcome.value.top_conditions) = 1
    /\ Outcome.value.overall_best.processType = "Perfusion"
    /\ Outcome.value.overall_best.expressionValue_mean = << 5, 1 >>
    /\ \E i \in MetricRows : current_df.rows[i].processType = "FedBatch" /\ MetricOf(i) = 0

\* three groups listed under the median, one of them keyed by a missing temperature
C20_WitnessMedian ==
    /\ Called("find_peak_conditions")
    /\ StatsCall.arguments.method = "median"
    /\ Len(DataColumns) = 2
    /\ Len(Outcome.value.top_conditions) = 2
    /\ Outcome.value.top_conditions[1].temperature = NoneCell
    /\ Outcome.value.top_conditions[2].expressionValue_median = << 5, 2 >>
    /\ Outcome.value.top_conditions[2].sample_count = 2

\* the only temperature of the table stands in a row without a metric value
C20_WitnessNote ==
    /\ Called("find_peak_conditions")
    /\ StatsCall.arguments.condition_cols = << "temperature" >>
    /\ MetricRows # {}
    /\ \E i \in 1..Len(current_df.rows) : current_df.rows[i].temperature # NoneCell
    /\ HasKey(Outcome.value, "note")

\* rows, none of them with a metric value
C20_WitnessNoData ==
    /\ Called("find_peak_conditions")
    /\ Len(current_df.rows) = 2
    /\ HasKey(Outcome.value, "error")

(***************************************************************************)
(* pathway_tools.get_kegg_pathways, from the enrichment results on: the    *)
(* results with a p-value below the threshold are kept, sorted by p-value  *)
(* and given a Benjamini-Hochberg adjusted p-value.  The KEGG service and  *)
(* the hypergeometric test are the environment: `tested` is the p-value    *)
(* they yield for each pathway, in the order of the service's answer.      *)
(*                                                                         *)
(* p-values are Python floats.  A float is modelled with a mantissa of     *)
(* MantissaBits bits, as a natural number of units of which FloatOne make  *)
(* 1.0; every value handled is at least 2^(MantissaBits-1) units, so a     *)
(* float is a natural number with at most MantissaBits significant bits.   *)
(* Multiplication and division round to the nearest float, ties to the     *)
(* even mantissa, as IEEE 754 arithmetic does.                             *)
(***************************************************************************)
MantissaBits == 3

MaxPathways == 5

FloatOne == Pow2(MantissaBits + 2)

\* the spacing of the floats around num/den
RECURSIVE UlpOf(_, _, _)
UlpOf(num, den, s) == IF num < s * Pow2(MantissaBits) * den THEN s ELSE UlpOf(num, den, 2 * s)

RoundToUlp(num, den, s) ==
    LET lo == num \div (den * s)
        twice == 2 * (num - lo * den * s)
    IN  IF twice < den * s THEN lo * s
        ELSE IF twice > den * s THEN (lo + 1) * s
        ELSE IF lo % 2 = 0 THEN lo * s ELSE (lo + 1) * s

\* the float nearest to num/den
RoundFloat(num, den) == RoundToUlp(num, den, UlpOf(num, den, 1))

FloatMul(a, b) == RoundFloat(a * b, 1)

FloatDiv(a, b) == RoundFloat(a, b)

\* "p_value": None of _calculate_enrichment
NoPValue == -1

\* _calculate_enrichment's results, one per pathway of the service's answer
EnrichmentResults(tested) == [i \in 1..Len(tested) |-> [pathway_id |-> i, p_value |-> tested[i]]]

\* list.sort(key=p_value): stable
RECURSIVE InsertByP(_, _)
InsertByP(r, sorted) ==
    IF sorted = << >> THEN << r >>
    ELSE IF r.p_value < Head(sorted).p_value THEN << r >> \o sorted
    ELSE << Head(sorted) >> \o InsertByP(r, Tail(sorted))

RECURSIVE SortByP(_)
SortByP(results) ==
    IF results = << >> THEN << >>
    ELSE InsertByP(results[Len(results)], SortByP(SubSeq(results, 1, Len(results) - 1)))

\* variant: every p-value is multiplied by the number of results, whatever its rank
FdrAdjusted_Bonferroni(sorted_results) ==
    [i \in 1..Len(sorted_results) |->
        [pathway_id |-> sorted_results[i].pathway_id,
         p_value |-> sorted_results[i].p_value,
         p_adjusted |-> Min(FloatMul(sorted_results[i].p_value, Len(sorted_results)), FloatOne)]]

\* the adjusted p-values of results sorted by p-value
FdrAdjusted(sorted_results) ==
    [i \in 1..Len(sorted_results) |->
        [pathway_id |-> sorted_results[i].pathway_id,
         p_value |-> sorted_results[i].p_value,
         p_adjusted |-> Min(FloatDiv(FloatMul(sorted_results[i].p_value, Len(sorted_results)), i),
                            FloatOne)]]

apply_fdr_correction(results) == FdrAdjusted(SortByP(results))

get_kegg_pathways(gene_list, tested, pvalue_threshold) ==
    IF gene_list = << >>
    THEN [enriched_pathways |-> << >>, input_genes |-> 0, error |-> "Empty gene list provided"]
    ELSE IF tested = << >>
    THEN [enriched_pathways |-> << >>, input_genes |-> Len(gene_list),
          mapped_genes |-> Len(gene_list),
          error |-> "Could not retrieve pathway-gene links from KEGG"]
    ELSE [enriched_pathways |->
              apply_fdr_correction(SortByP(SelectSeq(EnrichmentResults(tested),
                  LAMBDA r : r.p_value # NoPValue /\ r.p_value < pvalue_threshold))),
          input_genes |-> Len(gene_list),
          mapped_genes |-> Len(gene_list),
          total_pathways_tested |-> Len(tested)]

\* p-values of the environment: floats below, at and above the thresholds, or none
PValues ==
    { Pow2(MantissaBits - 1), Pow2(MantissaBits) - 1, Pow2(MantissaBits),
      Pow2(MantissaBits + 1) - 2, Pow2(MantissaBits + 1), NoPValue }

PValueThresholds == { Pow2(MantissaBits), Pow2(MantissaBits + 1) }

GeneLists == { << >>, << "G1" >> }

\* `received` holds what the environment yields for the call: the p-value of
\* each pathway of the service's answer
InitPathway ==
    /\ provider = "mock"
    /\ responses = << >>
    /\ call_count = 0
    /\ max_iterations = 1
    /\ current_df = NoneDf
    /\ de_results = NoneDf
    /\ pc = "pathway"
    /\ messages = << >>
    /\ tool_call_history = << >>
    /\ iteration = 0
    /\ response = NoResponse
    /\ tool_results = << >>
    /\ result = NoResult
    /\ exception = ""
    /\ received \in SeqUpTo(PValues, MaxPathways)
    /\ dispatched = << >>
    /\ advertised = << >>

\* one call of get_kegg_pathways: `dispatched` records the call, `tool_results` the payload
KeggCall ==
    \E gene_list \in GeneLists, threshold \in PValueThresholds :
        /\ pc = "pathway"
        /\ dispatched = << >>
        /\ tool_results' = << [id |-> "", name |-> "get_kegg_pathways",
                               result |-> get_kegg_pathways(gene_list, received, threshold)] >>
        /\ dispatched' = << [tool |-> "get_kegg_pathways",
                             arguments |-> [gene_list |-> gene_list, pvalue_threshold |-> threshold]] >>
        /\ UNCHANGED << advertised, provider, responses, call_count, max_iterations, current_df,
                        de_results, pc, messages, tool_call_history, iteration, response, result,
                        exception, received >>

NextPathway == KeggCall

SpecPathway == InitPathway /\ [][NextPathway]_vars

KeggAnswered == pc = "pathway" /\ dispatched # << >> /\ dispatched[1].arguments.gene_list # << >> /\ received # << >>

Enriched == tool_results[1].result.enriched_pathways

\* the pathways the call has to retain
BelowThreshold == { i \in 1..Len(received) : received[i] # NoPValue /\ received[i] < dispatched[1].arguments.pvalue_threshold }

RetainedAndSorted ==
    /\ Len(Enriched) = Cardinality(BelowThreshold)
    /\ { Enriched[k].pathway_id : k \in 1..Len(Enriched) } = BelowThreshold
    /\ \A k \in 1..Len(Enriched) : Enriched[k].p_value = received[Enriched[k].pathway_id]
    /\ \A k, l \in 1..Len(Enriched) : k < l => Enriched[k].p_value <= Enriched[l].p_value

(***************************************************************************)
(* C21 as stated.  After a KEGG enrichment call the payload lists exactly  *)
(* the pathways with a p-value below the threshold, in ascending order of  *)
(* the p-value, and no retained pathway has an adjusted p-value below its  *)
(* raw p-value.  The last part fails: p * n / r is computed by a rounded   *)
(* multiplication followed by a rounded division, and at the last rank     *)
(* (r = n) the two roundings can end one float below p.                    *)
(***************************************************************************)
C21_AdjustedNotBelowRaw ==
    KeggAnswered =>
        /\ RetainedAndSorted
        /\ \A k \in 1..Len(Enriched) : Enriched[k].p_adjusted >= Enriched[k].p_value

\* adj is x after two roundings to nearest, x = num/den: (1-u)^2 x <= adj <= (1+u)^2 x with u = 2^-MantissaBits
TwiceRounded(adj, num, den) ==
    /\ adj * den * Pow2(2 * MantissaBits) >= num * (Pow2(MantissaBits) - 1) * (Pow2(MantissaBits) - 1)
    /\ adj * den * Pow2(2 * MantissaBits) <= num * (Pow2(MantissaBits) + 1) * (Pow2(MantissaBits) + 1)

(***************************************************************************)
(* C21, amended.  The payload lists exactly the pathways with a p-value    *)
(* below the threshold, in ascending order of the p-value.  The adjusted   *)
(* p-value at rank r of n is p * n / r up to the two roundings of the      *)
(* float computation, capped at 1.0; it is never above 1.0, it equals the  *)
(* raw p-value when a single pathway is retained, and it is at least the   *)
(* raw p-value whenever p * n / r needs no rounding.                       *)
(***************************************************************************)
C21_Enrichment ==
    KeggAnswered =>
        /\ RetainedAndSorted
        /\ \A k \in 1..Len(Enriched) :
            /\ Enriched[k].p_adjusted <= FloatOne
            /\ Enriched[k].p_adjusted < FloatOne =>
                    TwiceRounded(Enriched[k].p_adjusted, Enriched[k].p_value * Len(Enriched), k)
            /\ Enriched[k].p_adjusted = FloatOne =>
                    Enriched[k].p_value * Len(Enriched) * (Pow2(MantissaBits) + 1) * (Pow2(MantissaBits) + 1)
                        >= FloatOne * k * Pow2(2 * MantissaBits)
            /\ Len(Enriched) = 1 => Enriched[k].p_adjusted = Enriched[k].p_value
            /\ (Enriched[k].p_value * Len(Enriched)) % k = 0
                  /\ RoundFloat(Enriched[k].p_value * Len(Enriched), k) * k = Enriched[k].p_value * Len(Enriched)
                  /\ RoundFloat(Enriched[k].p_value * Len(Enriched), 1) = Enriched[k].p_value * Len(Enriched)
                => Enriched[k].p_adjusted >= Enriched[k].p_value

\* five retained pathways: the first is capped at 1.0, the last is adjusted below its raw p-value
C21_Witness ==
    /\ KeggAnswered
    /\ Len(Enriched) = 5
    /\ Enriched[1].p_adjusted = FloatOne
    /\ Enriched[5].p_adjusted < Enriched[5].p_value
    /\ Enriched[1].p_value < Enriched[5].p_value

\* one retained pathway among three tested: one has no p-value, one is at the threshold
C21_WitnessSingle ==
    /\ KeggAnswered
    /\ Len(received) = 3
    /\ Len(Enriched) = 1
    /\ Enriched[1].pathway_id = 3
    /\ \E i \in 1..2 : received[i] = NoPValue
    /\ \E i \in 1..2 : received[i] = dispatched[1].arguments.pvalue_threshold

(***************************************************************************)
(* ToolExecutor._tool_differential_expression applied to a table of        *)
(* expression samples: `current_df` is any table of up to MaxDeRows rows,  *)
(* `dispatched` records the call and the p-value the t-test yields where   *)
(* it runs, `tool_results` the payload and `de_results` the stored frame.  *)
(***************************************************************************)
MaxDeRows == 4

DeSampleRows == [gene : { "G1", "G2" }, processType : { "FedBatch", "Perfusion" }, expressionValue : { "0", "3" }]

InitDe ==
    /\ provider = "mock"
    /\ responses = << >>
    /\ call_count = 0
    /\ max_iterations = 1
    /\ current_df \in { [columns |-> << "gene", "processType", "expressionValue" >>, rows |-> rows] :
                            rows \in SeqUpTo(DeSampleRows, MaxDeRows) }
    /\ de_results = NoneDf
    /\ pc = "de"
    /\ messages = << >>
    /\ tool_call_history = << >>
    /\ iteration = 0
    /\ response = NoResponse
    /\ tool_results = << >>
    /\ result = NoResult
    /\ exception = ""
    /\ received = << >>
    /\ dispatched = << >>
    /\ advertised = << >>

DeThresholds == { 0, 1 }

DeCallArgs(t) == [group_col |-> "processType", group1 |-> "FedBatch", group2 |-> "Perfusion", log2fc_threshold |-> t]

DeCall ==
    \E t \in DeThresholds, env \in EnvironmentsOf("differential_expression") :
        /\ pc = "de"
        /\ dispatched = << >>
        /\ tool_results' = << [id |-> "", name |-> "differential_expression",
                               result |-> execute("differential_expression", DeCallArgs(t),
                                                  current_df, de_results, env).value] >>
        /\ de_results' = execute("differential_expression", DeCallArgs(t), current_df, de_results, env).de
        /\ dispatched' = << [tool |-> "differential_expression", arguments |-> DeCallArgs(t),
                             p_val |-> env.p_val] >>
        /\ UNCHANGED << advertised, provider, responses, call_count, max_iterations, current_df,
                        pc, messages, tool_call_history, iteration, response, result,
                        exception, received >>

NextDe == DeCall

SpecDe == InitDe /\ [][NextDe]_vars

DeAnswered == pc = "de" /\ dispatched # << >> /\ current_df.rows # << >>

\* the samples of a gene in the group of a label
Samples(gene, label) == { i \in 1..Len(current_df.rows) : current_df.rows[i].gene = gene /\ current_df.rows[i].processType = label }

RECURSIVE SampleSum(_)
SampleSum(samples) == IF samples = {} THEN 0 ELSE LET i == CHOOSE m \in samples : TRUE IN ToFloat(current_df.rows[i].expressionValue) + SampleSum(samples \ {i})

\* the fraction under the logarithm of a gene's log2 fold change
FcNum(gene) == (SampleSum(Samples(gene, "FedBatch")) + Cardinality(Samples(gene, "FedBatch"))) * Cardinality(Samples(gene, "Perfusion"))

FcDen(gene) == (SampleSum(Samples(gene, "Perfusion")) + Cardinality(Samples(gene, "Perfusion"))) * Cardinality(Samples(gene, "FedBatch"))

\* |log2FoldChange| >= log2fc_threshold
MeetsFc(gene) ==
    /\ Samples(gene, "FedBatch") # {} /\ Samples(gene, "Perfusion") # {}
    /\ \/ FcNum(gene) >= Pow2(dispatched[1].arguments.log2fc_threshold) * FcDen(gene)
       \/ FcDen(gene) >= Pow2(dispatched[1].arguments.log2fc_threshold) * FcNum(gene)

\* both groups of the gene have the two samples the t-test needs
EnoughSamples(gene) == Cardinality(Samples(gene, "FedBatch")) >= 2 /\ Cardinality(Samples(gene, "Perfusion")) >= 2

DirectionRule(g) ==
    /\ g.direction # NoneCell <=> MeetsFc(g.gene)
    /\ MeetsFc(g.gene) => g.direction = (IF FcNum(g.gene) > FcDen(g.gene) THEN "up" ELSE "down")

SummaryRule ==
    /\ { de_results.rows[k].gene : k \in 1..Len(de_results.rows) } = { current_df.rows[i].gene : i \in 1..Len(current_df.rows) }
    /\ tool_results[1].result.total_genes = Len(de_results.rows)
    /\ tool_results[1].result.significant_genes = Cardinality({ k \in 1..Len(de_results.rows) : de_results.rows[k].significant })
    /\ tool_results[1].result.upregulated + tool_results[1].result.downregulated = tool_results[1].result.significant_genes

(***************************************************************************)
(* C22 as stated.  After differential_expression every gene is            *)
(* significant iff its |log2FoldChange| meets the threshold and either its *)
(* p-value is available and below 0.05 or a group of the gene has too few  *)
(* samples for a p-value; its direction is set iff the fold-change         *)
(* threshold is met, "up" for a positive log2FoldChange and "down"         *)
(* otherwise; and the summary counts add up.  The first part fails: a gene *)
(* with enough samples whose test yields no p-value is significant too.    *)
(***************************************************************************)
C22_Significance ==
    DeAnswered =>
        /\ SummaryRule
        /\ \A k \in 1..Len(de_results.rows) :
            /\ DirectionRule(de_results.rows[k])
            /\ de_results.rows[k].significant <=>
                  /\ MeetsFc(de_results.rows[k].gene)
                  /\ \/ EnoughSamples(de_results.rows[k].gene) /\ IsBelow(dispatched[1].p_val, 5, 100)
                     \/ ~EnoughSamples(de_results.rows[k].gene)

\* the rule the code applies: a missing p-value counts, whatever the reason it is missing
DeRuleAsCoded ==
    DeAnswered =>
        /\ SummaryRule
        /\ \A k \in 1..Len(de_results.rows) :
            /\ DirectionRule(de_results.rows[k])
            /\ de_results.rows[k].significant <=>
                  /\ MeetsFc(de_results.rows[k].gene)
                  /\ \/ EnoughSamples(de_results.rows[k].gene) /\ IsBelow(dispatched[1].p_val, 5, 100)
                     \/ ~EnoughSamples(de_results.rows[k].gene)
                     \/ dispatched[1].p_val = NoneVal

\* a gene with two samples per group, a four-fold change and a test without p-value
DeWithoutPValue ==
    /\ DeAnswered
    /\ dispatched[1].arguments.log2fc_threshold = 1
    /\ dispatched[1].p_val = NoneVal
    /\ Len(de_results.rows) = 1
    /\ EnoughSamples(de_results.rows[1].gene)
    /\ de_results.rows[1].significant
    /\ de_results.rows[1].direction = "up"

\* the rows with a value in both columns of the correlation
CompleteRows == { i \in 1..Len(current_df.rows) : current_df.rows[i][StatsCall.arguments.x_col] # NoneCell /\ current_df.rows[i][StatsCall.arguments.y_col] # NoneCell }

(***************************************************************************)
(* C23.  compute_correlation reports as n_samples the number of rows with  *)
(* a value in both columns.  Below min_samples it returns no coefficient,  *)
(* no p-value, significant false and the error "Insufficient samples:      *)
(* n < min_samples"; otherwise it returns no error and significant is      *)
(* true exactly when a p-value is present and below 0.05.                  *)
(***************************************************************************)
C23_Correlation ==
    Called("compute_correlation") =>
        /\ ~Outcome.raised
        /\ Outcome.value.n_samples = Cardinality(CompleteRows)
        /\ IF Cardinality(CompleteRows) < StatsCall.arguments.min_samples
           THEN /\ Outcome.value.correlation = NoneVal
                /\ Outcome.value.p_value = NoneVal
                /\ Outcome.value.significant = FALSE
                /\ Outcome.value.error = "Insufficient samples: " \o ToString(Cardinality(CompleteRows))
                                             \o " < " \o ToString(StatsCall.arguments.min_samples)
           ELSE /\ "error" \notin DOMAIN Outcome.value
                /\ Outcome.value.significant <=>
                      /\ Outcome.value.p_value # NoneVal
                      /\ Outcome.value.p_value[1] * 100 < 5 * Outcome.value.p_value[2]

\* three rows, one without temperature: two samples are too few for the default minimum
C23_Witness ==
    /\ Called("compute_correlation")
    /\ Len(current_df.rows) = 3
    /\ Cardinality(CompleteRows) = 2
    /\ StatsCall.arguments.min_samples = 3
    /\ HasKey(Outcome.value, "error")

\* enough samples and a p-value of exactly 0.05: not significant
C23_WitnessBoundary ==
    /\ Called("compute_correlation")
    /\ Cardinality(CompleteRows) = 3
    /\ Outcome.value.p_value = << 5, 100 >>
    /\ ~Outcome.value.significant

\* enough samples and a p-value below 0.05
C23_WitnessSignificant ==
    /\ Called("compute_correlation")
    /\ Cardinality(CompleteRows) = 2
    /\ StatsCall.arguments.min_samples = 2
    /\ Outcome.value.significant

(***************************************************************************)
(* C24.  The tool calls of one response are dispatched one after another,  *)
(* in the order the response lists them, against the one current_df: a     *)
(* table-reading tool that directly follows an execute_sparql call of the  *)
(* same response that returned a non-empty table works on exactly that     *)
(* table and does not report "No data loaded"; a table-reading tool that   *)
(* comes before any query of the session returns "No data loaded", and the *)
(* calls listed after it are still dispatched before the turn is appended. *)
(***************************************************************************)
PositionInTurn == Len(tool_results) + 1

IsLoaded(payload) == HasKey(payload, "row_count") /\ payload.row_count > 0

FollowsLoadingQuery ==
    /\ PositionInTurn > 1
    /\ response.tool_calls[PositionInTurn - 1].name = "execute_sparql"
    /\ IsLoaded(tool_results[PositionInTurn - 1].result)

TableOfPayload(payload, df) ==
    /\ df # NoneDf
    /\ df.columns = payload.columns
    /\ Len(df.rows) = payload.row_count
    /\ Head_n(df.rows, 10) = payload.sample_rows

C24_SameTurnOrder ==
    [][/\ Dispatches =>
            /\ pc = "dispatch"
            /\ PositionInTurn <= Len(response.tool_calls)
            /\ DispatchedCall.tool = response.tool_calls[PositionInTurn].name
            /\ DispatchedCall.arguments = response.tool_calls[PositionInTurn].arguments
            /\ Len(tool_results') = PositionInTurn
            /\ (DispatchedCall.tool \in TableReaders /\ NoQueryYet) => Payload = NoDataLoaded
            /\ (DispatchedCall.tool \in TableReaders /\ FollowsLoadingQuery) =>
                  /\ TableOfPayload(tool_results[PositionInTurn - 1].result, current_df)
                  /\ Payload # NoDataLoaded
                  /\ \E env \in EnvironmentsOf(DispatchedCall.tool) :
                        Payload = execute(DispatchedCall.tool, DispatchedCall.arguments,
                                          current_df, de_results, env).value
       /\ (pc = "dispatch" /\ messages' # messages) =>
            /\ Len(tool_results) = Len(response.tool_calls)
            /\ \A k \in 1..Len(tool_results) :
                  /\ tool_results[k].name = response.tool_calls[k].name
                  /\ tool_results[k].id = response.tool_calls[k].id]_vars

\* the query, then a filter on a column the loaded table does not have
C24_Witness ==
    /\ pc = "dispatch"
    /\ Len(response.tool_calls) >= 2
    /\ Len(tool_results) >= 2
    /\ response.tool_calls[1].name = "execute_sparql"
    /\ response.tool_calls[2].name = "filter_by_threshold"
    /\ IsLoaded(tool_results[1].result)
    /\ HasKey(tool_results[2].result, "error")
    /\ tool_results[2].result # NoDataLoaded
    /\ Len(dispatched) = 2

\* the reader, then the query, in a session without an earlier query
C24_WitnessReaderFirst ==
    /\ pc = "dispatch"
    /\ Len(dispatched) = 2
    /\ Len(tool_results) = 2
    /\ response.tool_calls[1].name = "find_peak_conditions"
    /\ response.tool_calls[2].name = "execute_sparql"
    /\ tool_results[1].result = NoDataLoaded
    /\ IsLoaded(tool_results[2].result)
    /\ TableOfPayload(tool_results[2].result, current_df)

\* the query, then find_peak_conditions of the same response
C24_WitnessPeakAfterQuery ==
    /\ pc = "dispatch"
    /\ Len(dispatched) = 2
    /\ Len(tool_results) = 2
    /\ response.tool_calls[1].name = "execute_sparql"
    /\ response.tool_calls[2].name = "find_peak_conditions"
    /\ IsLoaded(tool_results[1].result)
    /\ HasKey(tool_results[2].result, "top_conditions")
    /\ Len(tool_results[2].result.top_conditions) = 2

(***************************************************************************)
(* C25.  Whenever answer_question is about to call the provider, and       *)
(* throughout the run, `messages` is the question as one user turn         *)
(* followed by one (assistant, user) pair per completed tool turn: its     *)
(* length is 1 + 2k for k completed tool turns, the roles alternate        *)
(* starting with user, and a step of the run either leaves it alone or     *)
(* appends exactly one assistant turn and one user turn to it.  The list   *)
(* passed to create_message is this `messages` itself.                     *)
(***************************************************************************)
InRun == pc \in { "call_model", "dispatch", "done", "raised" } /\ messages # << >>

\* tool turns whose two messages.append have run
CompletedToolTurns ==
    LET requested == Cardinality({ k \in 1..Len(received) : ToolCallsOf(received[k]) # << >> })
    IN  IF pc = "dispatch" THEN requested - 1 ELSE requested

AskedQuestions == Questions \cup { CQ_DESCRIPTIONS(id) : id \in CQ_IDS }

RolesAlternate(history) ==
    \A i \in 1..Len(history) :
        history[i].role = (IF i % 2 = 1 THEN "user" ELSE "assistant")

HistoryShape ==
    InRun =>
        /\ Len(messages) = 1 + 2 * CompletedToolTurns
        /\ iteration = CompletedToolTurns
        /\ messages[1].role = "user"
        /\ messages[1].content \in AskedQuestions
        /\ RolesAlternate(messages)

HistoryGrowth ==
    (InRun /\ messages' # messages) =>
        /\ pc = "dispatch"
        /\ Len(tool_results) = Len(response.tool_calls)
        /\ Len(messages') = Len(messages) + 2
        /\ SubSeq(messages', 1, Len(messages)) = messages
        /\ messages'[Len(messages) + 1].role = "assistant"
        /\ messages'[Len(messages) + 2].role = "user"

C25_HistoryShape == [][HistoryShape /\ HistoryShape' /\ HistoryGrowth]_vars

\* a provider call with one completed tool turn behind it
C25_Witness ==
    /\ InLoop
    /\ iteration = 1
    /\ Len(messages) = 3
    /\ messages[2].role = "assistant"
    /\ messages[3].role = "user"
    /\ Len(messages[3].content) = 2

(***************************************************************************)
(* C26.  For every history the loop produces, _convert_messages yields, in *)
(* order: the question as a user message; for each assistant turn one      *)
(* assistant message whose tool_calls carry the ids and names of the       *)
(* turn's tool_use blocks, in the same order; and directly after it one    *)
(* role "tool" message per tool_result block of the following user turn,   *)
(* in order, with tool_call_id equal to the block's tool_use_id.  Every    *)
(* tool call of the converted list is thus answered by the tool message at *)
(* the same position after it, and no block is lost.                       *)
(***************************************************************************)
Converted == convert_messages(messages)

UsesOfTurn(turn) == BlocksOfType(messages[2 * turn].content, "tool_use")

ResultsOfTurn(turn) == messages[2 * turn + 1].content

\* index in the converted list of the assistant message of tool turn `turn`
RECURSIVE OffsetOf(_)
OffsetOf(turn) ==
    IF turn = 1 THEN 2 ELSE OffsetOf(turn - 1) + 1 + Len(ResultsOfTurn(turn - 1))

AnsweredInOrder(assistant, answers, uses, results) ==
    /\ assistant.role = "assistant"
    /\ HasKey(assistant, "tool_calls")
    /\ Len(assistant.tool_calls) = Len(uses)
    /\ Len(assistant.tool_calls) = Len(results)
    /\ \A i \in 1..Len(uses) :
          /\ assistant.tool_calls[i].id = uses[i].id
          /\ assistant.tool_calls[i].function.name = uses[i].name
    /\ \A i \in 1..Len(results) :
          /\ answers[i].role = "tool"
          /\ answers[i].tool_call_id = results[i].tool_use_id
          /\ answers[i].content = results[i].content
          /\ answers[i].tool_call_id = assistant.tool_calls[i].id

TurnConverted(converted, turn, at) ==
    /\ at + Len(ResultsOfTurn(turn)) <= Len(converted)
    /\ AnsweredInOrder(converted[at], SubSeq(converted, at + 1, at + Len(ResultsOfTurn(turn))),
                       UsesOfTurn(turn), ResultsOfTurn(turn))

ConvertedAsStated(converted, turns) ==
    /\ converted[1] = [role |-> "user", content |-> messages[1].content]
    /\ Len(converted) = OffsetOf(turns + 1) - 1
    /\ \A turn \in 1..turns : TurnConverted(converted, turn, OffsetOf(turn))

\* `messages` changes only between two passes of the loop: its values at the
\* top of the loop are all the histories a run produces
C26_ConvertMessages ==
    pc = "call_model" => ConvertedAsStated(convert_messages(messages), CompletedToolTurns)

\* an OpenAI run whose first turn requested two tools and carried a text
C26_Witness ==
    /\ provider = "openai"
    /\ InLoop
    /\ Len(messages) = 3
    /\ Len(messages[2].content) = 3
    /\ Len(Converted) = 4
    /\ Converted[2].content = "Let me look at the data."
    /\ Converted[3].tool_call_id = "call_1"
    /\ Converted[4].tool_call_id = "call_2"

\* a turn without text: the assistant message's content is None
C26_WitnessNoText ==
    /\ InLoop
    /\ Len(messages) = 3
    /\ Converted[2].content = NoneCell
    /\ Len(Converted[2].tool_calls) = 1

(***************************************************************************)
(* OllamaProvider.create_message, after the transport: the tool calls are  *)
(* parsed out of the text.  A text is a sequence of pieces:                *)
(*   "w"     a word of prose            " "    whitespace                  *)
(*   "La"    {"tool": "execute_sparql", "argu                              *)
(*   "Lb"    {"tool": "find_peak_conditions", "argu                        *)
(*   "R"     ments": {}}                                                   *)
(*   "Rbad"  ments": {x}}       (matches the pattern, is no JSON)          *)
(* so that json_pattern matches exactly an opening piece directly followed *)
(* by a closing piece.                                                     *)
(***************************************************************************)
TextPieces == { "w", " ", "La", "Lb", "R", "Rbad" }

IsOpening(piece) == piece \in { "La", "Lb" }

IsClosing(piece) == piece \in { "R", "Rbad" }

\* re.findall(json_pattern, content, re.DOTALL): leftmost, non-overlapping
RECURSIVE FindAll(_, _)
FindAll(content, i) ==
    IF i >= Len(content) THEN << >>
    ELSE IF IsOpening(content[i]) /\ IsClosing(content[i + 1])
    THEN << SubSeq(content, i, i + 1) >> \o FindAll(content, i + 2)
    ELSE FindAll(content, i + 1)

\* json.loads(match) succeeds
JsonLoads(match) == match[2] = "R"

ParsedTool(match) == IF match[1] = "La" THEN "execute_sparql" ELSE "find_peak_conditions"

\* content.replace(match, ""): every non-overlapping occurrence, in one pass
RECURSIVE Replace(_, _, _)
Replace(content, match, i) ==
    IF i > Len(content) THEN << >>
    ELSE IF i < Len(content) /\ SubSeq(content, i, i + 1) = match
    THEN Replace(content, match, i + 2)
    ELSE << content[i] >> \o Replace(content, match, i + 1)

\* str.strip()
RECURSIVE Strip(_)
Strip(content) ==
    IF content = << >> THEN content
    ELSE IF Head(content) = " " THEN Strip(Tail(content))
    ELSE IF content[Len(content)] = " " THEN Strip(SubSeq(content, 1, Len(content) - 1))
    ELSE content

\* `for match in matches`
RECURSIVE ParseMatches(_, _, _)
ParseMatches(matches, content, tool_calls) ==
    IF matches = << >> THEN [content |-> content, tool_calls |-> tool_calls]
    ELSE LET match == Head(matches)
         IN  IF JsonLoads(match)
             THEN ParseMatches(Tail(matches), Strip(Replace(content, match, 1)),
                               Append(tool_calls,
                                      [id |-> "ollama_" \o ToString(Len(tool_calls)),
                                       name |-> ParsedTool(match),
                                       arguments |-> EmptyArgs]))
             ELSE ParseMatches(Tail(matches), content, tool_calls)

OllamaParse(text) ==
    LET parsed == ParseMatches(FindAll(text, 1), text, << >>)
    IN  [content |-> parsed.content,
         tool_calls |-> parsed.tool_calls,
         stop_reason |-> IF parsed.tool_calls = << >> THEN "end_turn" ELSE "tool_use"]

\* `received` holds the text the backend returned
InitOllama ==
    /\ provider = "ollama"
    /\ responses = << >>
    /\ call_count = 0
    /\ max_iterations = 1
    /\ current_df = NoneDf
    /\ de_results = NoneDf
    /\ pc = "ollama"
    /\ messages = << >>
    /\ tool_call_history = << >>
    /\ iteration = 0
    /\ response = NoResponse
    /\ tool_results = << >>
    /\ result = NoResult
    /\ exception = ""
    /\ received \in SeqUpTo(TextPieces, MaxText)
    /\ dispatched = << >>
    /\ advertised = << >>

\* the text is parsed into the response create_message returns
OllamaParseCall ==
    /\ pc = "ollama"
    /\ response = NoResponse
    /\ response' = OllamaParse(received)
    /\ UNCHANGED << advertised, provider, responses, call_count, max_iterations, current_df,
                    de_results, pc, messages, tool_call_history, iteration, tool_results, result,
                    exception, received, dispatched >>

NextOllama == OllamaParseCall

SpecOllama == InitOllama /\ [][NextOllama]_vars

(***************************************************************************)
(* C27.  For any text of the Ollama backend: if no tool-call object is     *)
(* extracted, tool_calls is empty, content is the full text and            *)
(* stop_reason is "end_turn"; otherwise each extracted object is one tool  *)
(* call, in order of appearance, the ids are pairwise distinct, no         *)
(* extracted object occurs in content any more, and stop_reason is         *)
(* "tool_use".                                                             *)
(***************************************************************************)
OllamaParsed == pc = "ollama" /\ response # NoResponse

\* the objects of the text that are extracted: the matches that are JSON
Extracted == SelectSeq(FindAll(received, 1), JsonLoads)

Occurs(match, content) ==
    \E i \in 1..(Len(content) - 1) : SubSeq(content, i, i + 1) = match

CallsAsExtracted ==
    /\ Len(response.tool_calls) = Len(Extracted)
    /\ \A k \in 1..Len(Extracted) : response.tool_calls[k].name = ParsedTool(Extracted[k])
    /\ \A j, k \in 1..Len(response.tool_calls) :
          j # k => response.tool_calls[j].id # response.tool_calls[k].id
    /\ response.stop_reason = (IF response.tool_calls = << >> THEN "end_turn" ELSE "tool_use")
    /\ Extracted = << >> => response.content = received

C27_OllamaExtraction ==
    OllamaParsed =>
        /\ CallsAsExtracted
        /\ \A k \in 1..Len(Extracted) : ~Occurs(Extracted[k], response.content)

\* no opening piece directly follows another one
NoOpeningTwice ==
    \A i \in 2..Len(received) : ~(IsOpening(received[i - 1]) /\ IsOpening(received[i]))

\* what the code guarantees: the calls, ids and stop_reason are as stated, and
\* the extracted objects are gone from content unless a removal joined two halves
OllamaExtractionAsCoded ==
    OllamaParsed =>
        /\ CallsAsExtracted
        /\ Len(response.content) <= Len(received)
        /\ NoOpeningTwice => \A k \in 1..Len(Extracted) : ~Occurs(Extracted[k], response.content)

\* an object embedded in the halves of an equal object: the removal joins the halves
OllamaRejoined ==
    /\ OllamaParsed
    /\ received = << "La", "La", "R", "R" >>
    /\ Extracted = << << "La", "R" >> >>
    /\ response.content = << "La", "R" >>
    /\ Len(response.tool_calls) = 1

\* two objects in prose: both extracted, in order, and gone from content
OllamaTwoCalls ==
    /\ OllamaParsed
    /\ received = << "La", "R", "w", "Lb", "R" >>
    /\ response.content = << "w" >>
    /\ Len(response.tool_calls) = 2

(***************************************************************************)
(* C28.  compute_fold_change puts a row in group 1 iff its group-column    *)
(* value contains group1 as a case-insensitive substring, likewise for     *)
(* group 2, and counts in n_group1 and n_group2 the rows of each group     *)
(* that have a value.  As stated: for two distinct labels no row is        *)
(* counted in both groups, so n_group1 + n_group2 never exceeds the number *)
(* of rows that have a value.                                              *)
(***************************************************************************)
\* the rows with a value whose group-column cell contains `label`
GroupOf(label) ==
    { i \in 1..Len(current_df.rows) :
        /\ current_df.rows[i].expressionValue # NoneCell
        /\ ContainsCI(current_df.rows[i].processType, label) }

RowsWithValue == { i \in 1..Len(current_df.rows) : current_df.rows[i].expressionValue # NoneCell }

CountsAreGroups ==
    /\ ~Outcome.raised
    /\ Outcome.value.n_group1 = Cardinality(GroupOf(StatsCall.arguments.group1))
    /\ Outcome.value.n_group2 = Cardinality(GroupOf(StatsCall.arguments.group2))

C28_WitnessDisjoint ==
    /\ Called("compute_fold_change")
    /\ StatsCall.arguments.group1 = "FedBatch"
    /\ StatsCall.arguments.group2 = "Perfusion"
    /\ Cardinality(RowsWithValue) = 3
    /\ Outcome.value.n_group1 = 1
    /\ Outcome.value.n_group2 = 1

(***************************************************************************)
(* C29.  Within one executor a table-reading tool returns the              *)
(* "No data loaded" error only if no execute_sparql call has returned a    *)
(* success payload so far: after a successful query the later analytic and *)
(* filter calls work on the current table.                                 *)
(***************************************************************************)
QuerySucceededBefore(k) ==
    \E j \in 1..(k - 1) :
        /\ dispatched[j].tool = "execute_sparql"
        /\ HasKey(tool_results[j].result, "row_count")

ReportsNoData(k) ==
    /\ dispatched[k].tool \in TableReaders
    /\ tool_results[k].result = NoDataLoaded

C29_NoDataOnlyBeforeQuery ==
    pc = "exec" => \A k \in 1..Len(dispatched) : ReportsNoData(k) => ~QuerySucceededBefore(k)

\* what the code does: the error is returned exactly when the table is None or has no row
NoDataAsCoded ==
    [][(pc = "exec" /\ Dispatches /\ DispatchedCall.tool \in TableReaders) =>
          (Payload = NoDataLoaded <=> NoData(current_df))]_vars

\* a query that succeeds with zero rows, then a reader that reports no data
EmptyTableReported ==
    /\ pc = "exec"
    /\ Len(dispatched) = 2
    /\ dispatched[1].tool = "execute_sparql"
    /\ tool_results[1].result = [row_count |-> 0, columns |-> << "cellLine", "gene" >>,
                                 sample_rows |-> << >>]
    /\ dispatched[2].tool = "find_peak_conditions"
    /\ tool_results[2].result = NoDataLoaded

(***************************************************************************)
(* C30.  A differential_expression call that returns an {error} payload    *)
(* leaves de_results (LastDifferentialResult) unchanged, so the genes of   *)
(* an earlier successful call stay retrievable through                     *)
(* get_significant_genes.                                                  *)
(***************************************************************************)
DeFails ==
    /\ pc = "exec"
    /\ Dispatches
    /\ DispatchedCall.tool = "differential_expression"
    /\ HasKey(Payload, "error")

C30_FailedDeKeepsResult == [][DeFails => de_results' = de_results]_vars

\* what the code does: a failure before or inside differential_expression keeps
\* de_results; a result without genes replaces it by an empty frame and then fails
FailedDeAsCoded ==
    [][DeFails =>
          \/ de_results' = de_results
          \/ /\ Payload = [error |-> KeyErrorStr("significant")]
             /\ de_results' = [columns |-> << >>, rows |-> << >>]]_vars

\* a successful analysis, then one for a cell line without rows: the stored
\* result is gone and get_significant_genes has nothing to return
DeResultLost ==
    /\ pc = "exec"
    /\ Len(dispatched) = 3
    /\ dispatched[2].tool = "differential_expression"
    /\ HasKey(tool_results[2].result, "total_genes")
    /\ dispatched[3].tool = "differential_expression"
    /\ HasKey(dispatched[3].arguments, "cell_line")
    /\ tool_results[3].result = [error |-> KeyErrorStr("significant")]
    /\ de_results = [columns |-> << >>, rows |-> << >>]
    /\ HasKey(tool_get_significant_genes(EmptyArgs, current_df, de_results).value, "error")

\* a failure that keeps the stored result: a required argument is missing
DeResultKept ==
    /\ pc = "exec"
    /\ Len(dispatched) = 3
    /\ HasKey(tool_results[2].result, "total_genes")
    /\ dispatched[3] = [tool |-> "differential_expression", arguments |-> EmptyArgs]
    /\ HasKey(tool_results[3].result, "error")
    /\ de_results # NoneDf
    /\ de_results.rows # << >>

====
